---- MODULE Spec2Model ----
(***************************************************************************)
(* Model of the Logo interpreter of turtle-world/logo.js: the evaluator    *)
(* (evaluate and its handlers, performCall, user procedures, templates,    *)
(* the control builtins) run as an explicit stack of activation frames,    *)
(* and the host-facing control surface (execute, pause, continue, break)   *)
(* interleaved with it.                                                    *)
(*                                                                         *)
(* Every `await` of the source is a step boundary: one step of the model   *)
(* is the synchronous code between two awaits.  The host may call the      *)
(* control surface between any two steps.                                  *)
(***************************************************************************)
EXTENDS Integers, Sequences, FiniteSets, TLC

(***************************************************************************)
(* Values.  A Logo value is a number, a boolean, a string or a list; JS    *)
(* undefined is a fifth shape.  A string keeps its leading sigil (the      *)
(* quote of a quoted word, the colon of a variable reference) apart from   *)
(* the rest, which is what value[0] and value.substr(1) read.              *)
(***************************************************************************)
Undef == [k |-> "undef", sig |-> "", a |-> "", n |-> 0, l |-> <<>>]

Num(n) == [k |-> "num", sig |-> "", a |-> "", n |-> n, l |-> <<>>]

Bool(b) == [k |-> "bool", sig |-> "", a |-> "", n |-> IF b THEN 1 ELSE 0, l |-> <<>>]

W(s) == [k |-> "str", sig |-> "", a |-> s, n |-> 0, l |-> <<>>]

Q(s) == [k |-> "str", sig |-> "\"", a |-> s, n |-> 0, l |-> <<>>]

V(s) == [k |-> "str", sig |-> ":", a |-> s, n |-> 0, l |-> <<>>]

L(seq) == [k |-> "list", sig |-> "", a |-> "", n |-> 0, l |-> seq]

NaN == [k |-> "num", sig |-> "", a |-> "NaN", n |-> 0, l |-> <<>>]

isNumber(val) == val.k = "num"

isString(val) == val.k = "str"

isBoolean(val) == val.k = "bool"

isList(val) == val.k = "list"

isQuoted(val) == isString(val) /\ val.sig = "\""

isVariable(val) == isString(val) /\ val.sig = ":"

OperatorChars == {"-", "+", "*", "/", "<", ">"}

isOperator(val) == isString(val) /\ val.sig = "" /\ val.a \in OperatorChars

isProcedure(val) == isString(val) /\ ~isQuoted(val) /\ ~isVariable(val)

isLiteral(val) ==
    isList(val) \/ isBoolean(val) \/ isNumber(val) \/ isQuoted(val) \/ isVariable(val)

precedence(op) ==
    CASE op \in {"*", "/"} -> 10
      [] op \in {"+", "-"} -> 5
      [] OTHER -> 1

\* JS truthiness of a value, as tested by `if (cond)`.
Truthy(val) ==
    CASE val.k = "undef" -> FALSE
      [] val.k = "bool" -> val.n = 1
      [] val.k = "num" -> val.n # 0 /\ val.a # "NaN"
      [] val.k = "str" -> ~(val.sig = "" /\ val.a = "")
      [] OTHER -> TRUE

\* unaryMinus(a): -a.
unaryMinus(a) == IF isNumber(a) /\ a.a # "NaN" THEN Num(0 - a.n) ELSE NaN

\* The infix builtins '+' '-' '*' '/' '<' '>' '=' and `sum` on two values.
\* Arithmetic on anything but numbers is NaN; '/' is modelled on exact
\* quotients only.
Arith(op, a, b) ==
    IF op = "="
    THEN Bool(a = b)
    ELSE IF ~(isNumber(a) /\ isNumber(b) /\ a.a # "NaN" /\ b.a # "NaN")
    THEN IF op \in {"<", ">"} THEN Bool(FALSE) ELSE NaN
    ELSE CASE op \in {"+", "sum"} -> Num(a.n + b.n)
           [] op = "-" -> Num(a.n - b.n)
           [] op = "*" -> Num(a.n * b.n)
           [] op = "/" -> IF b.n # 0 /\ a.n % b.n = 0 THEN Num(a.n \div b.n) ELSE NaN
           [] op = "<" -> Bool(a.n < b.n)
           [] OTHER -> Bool(a.n > b.n)

(***************************************************************************)
(* Function objects.  func.length is the declared arity; a user procedure  *)
(* keeps its argument names and its body.                                  *)
(***************************************************************************)
Builtin(name, len) ==
    [name |-> name, kind |-> "builtin", length |-> len, params |-> <<>>, body |-> <<>>]

UnaryMinusFunc ==
    [name |-> "unaryMinus", kind |-> "unary", length |-> 1, params |-> <<>>, body |-> <<>>]

NoFunc == [name |-> "", kind |-> "none", length |-> 0, params |-> <<>>, body |-> <<>>]

InfixNames == {"+", "-", "*", "/", "<", ">", "="}

\* The part of the builtins registry the modelled programs call, with the
\* arity each function declares.
builtins ==
    [name \in InfixNames \cup {"sum", "repeat", "if", "apply", "foreach", "map"} |->
        Builtin(name, 2)]
    @@ [name \in {"make"} |-> Builtin(name, 2)]
    @@ [name \in {"print", "wait", "output", "run", "local", "global", "forever"} |->
           Builtin(name, 1)]
    @@ [name \in {"true", "stop"} |-> Builtin(name, 0)]

\* Context: the activation record of one procedure invocation.
Context == [output |-> Undef, stop |-> FALSE]

(***************************************************************************)
(* Binding and Scope.  A Binding is a mutable cell; the model keeps the    *)
(* cells in a heap, `bindings`, a function from cell numbers to values,    *)
(* and a scope is the map of its own names to cell numbers.  Every scope   *)
(* is created with the current scope as its parent and pushed at once, so  *)
(* the prototype chain of scopes[i].bindings is scopes[i], ..., scopes[1]. *)
(* Cells no scope refers to any more are dropped from the heap.            *)
(***************************************************************************)
EmptyScope == [x \in {} |-> 0]

NoBindings == [c \in {} |-> Undef]

\* new Binding(val): the cell gets the least number not in use.
NewBinding(cells) == CHOOSE c \in 1..(Cardinality(DOMAIN cells) + 1) : c \notin DOMAIN cells

\* The scope of the chain of scopes[i] in which a lookup of name ends, or 0.
Holder(scps, i, name) ==
    IF \E j \in 1..i : name \in DOMAIN scps[j]
    THEN CHOOSE j \in 1..i :
             /\ name \in DOMAIN scps[j]
             /\ \A m \in (j + 1)..i : name \notin DOMAIN scps[m]
    ELSE 0

\* Scope.getBinding: the cell found through the prototype chain, 0 for
\* undefined.
getBinding(scps, i, name) ==
    IF Holder(scps, i, name) = 0 THEN 0 ELSE scps[Holder(scps, i, name)][name]

ScopeHas(scps, i, name) == getBinding(scps, i, name) # 0

\* Scope.get, for a name that is bound.
ScopeGet(scps, cells, i, name) == cells[getBinding(scps, i, name)]

\* Scope.bind on scopes[i]: an own property, shadowing or replacing.
bind(scps, i, name, cell) ==
    [scps EXCEPT ![i] = [x \in DOMAIN scps[i] \cup {name} |->
                            IF x = name THEN cell ELSE scps[i][x]]]

\* The cells still referred to by some scope.
Referenced(scps) == UNION {{scps[i][x] : x \in DOMAIN scps[i]} : i \in 1..Len(scps)}

\* Unreferenced cells are reclaimed.
Collect(scps, cells) == [c \in DOMAIN cells \cap Referenced(scps) |-> cells[c]]

\* Scope.bindValue on scopes[i]: bind a new cell holding val.
bindValue(scps, cells, i, name, val) ==
    LET c == NewBinding(cells)
        bound == bind(scps, i, name, c)
        heap == [x \in DOMAIN cells \cup {c} |-> IF x = c THEN val ELSE cells[x]]
    IN [scopes |-> bound, bindings |-> Collect(bound, heap)]

\* A set that always binds a new cell in scopes[i].
ScopeSetShadowing(scps, cells, i, name, val) == bindValue(scps, cells, i, name, val)

\* A set that binds a name bound nowhere in scopes[i].
ScopeSetLocal(scps, cells, i, name, val) ==
    IF getBinding(scps, i, name) # 0
    THEN [scopes |-> scps,
          bindings |-> [cells EXCEPT ![getBinding(scps, i, name)] = val]]
    ELSE bindValue(scps, cells, i, name, val)

\* Scope.set on scopes[i]: the cell found through the chain is updated; a
\* name bound nowhere is bound in the scope that has no parent.
ScopeSet(scps, cells, i, name, val) ==
    IF getBinding(scps, i, name) # 0
    THEN [scopes |-> scps,
          bindings |-> [cells EXCEPT ![getBinding(scps, i, name)] = val]]
    ELSE bindValue(scps, cells, 1, name, val)

(***************************************************************************)
(* List and ListBuilder.  The List records live in a heap, `lists`, a      *)
(* function from record numbers to head and tail; the tail of a record is  *)
(* the number of another record.  A ListBuilder is its two fields.         *)
(***************************************************************************)
\* List.empty, the record created when the module is loaded.
empty == 0

\* The heap after `List.empty = new List()`.
NoLists == [c \in {empty} |-> [head |-> Undef, tail |-> empty]]

\* Records the heap has room for besides List.empty.
MaxCells == 3

\* The values pushed onto lists.
Items == {Num(1), Num(2)}

\* List.isEmpty.
isEmpty(ls, c) == ls[c].head = Undef

\* new List(head, tail) once List.empty exists: a second empty list is
\* refused, any other record is allocated.
NewList(ls, head, tail) ==
    IF head = Undef
    THEN [err |-> "TypeError", lists |-> ls, cell |-> empty]
    ELSE LET c == CHOOSE x \in 1..Cardinality(DOMAIN ls) : x \notin DOMAIN ls
         IN [err |-> "none",
             lists |-> [x \in DOMAIN ls \cup {c} |->
                           IF x = c THEN [head |-> head, tail |-> tail] ELSE ls[x]],
             cell |-> c]

RECURSIVE Cursors(_, _, _)

\* The loop of List.end over this.cursors(): the last record before the
\* first empty one, or the list itself.
Cursors(ls, cursor, last) ==
    IF isEmpty(ls, cursor) THEN last ELSE Cursors(ls, ls[cursor].tail, cursor)

\* List.end.
ListEnd(ls, c) == Cursors(ls, c, c)

RECURSIVE Reaches(_, _, _)

\* Whether the iteration from cursor comes by the record c.
Reaches(ls, cursor, c) ==
    IF isEmpty(ls, cursor) THEN FALSE
    ELSE cursor = c \/ Reaches(ls, ls[cursor].tail, c)

\* ListBuilder.constructor.
NewListBuilder == [list |-> empty, end |-> empty]

\* ListBuilder.push on the builder b: the heap and the builder afterwards.
push(ls, b, val) ==
    LET r == NewList(ls, val, empty)
    IN IF r.err # "none"
       THEN [err |-> r.err, lists |-> ls, builder |-> b]
       ELSE IF isEmpty(ls, b.list)
       THEN [err |-> "none", lists |-> r.lists,
             builder |-> [list |-> r.cell, end |-> r.cell]]
       ELSE [err |-> "none",
             lists |-> [r.lists EXCEPT ![b.end].tail = r.cell],
             builder |-> [b EXCEPT !.end = r.cell]]

RECURSIVE concat(_, _, _)

\* ListBuilder.concat: one push per value, up to the first that throws.
concat(ls, b, iterable) ==
    IF iterable = <<>>
    THEN [err |-> "none", lists |-> ls, builder |-> b]
    ELSE LET r == push(ls, b, Head(iterable))
         IN IF r.err # "none" THEN r ELSE concat(r.lists, r.builder, Tail(iterable))

\* ListBuilder.attach.
attach(ls, b, list) ==
    LET spliced == IF isEmpty(ls, b.list) THEN ls ELSE [ls EXCEPT ![b.end].tail = list]
        first == IF isEmpty(ls, b.list) THEN list ELSE b.list
    IN [err |-> "none", lists |-> spliced,
        builder |-> [list |-> first, end |-> ListEnd(spliced, list)]]

(***************************************************************************)
(* Interpreter.parse.  The source is a sequence of characters; `end` is    *)
(* the number of characters consumed, as in the code.  The parse state is  *)
(* the cursor, the tokens recorded into the list being built, and the      *)
(* error thrown, if any.  The source map is not modelled.                  *)
(***************************************************************************)
reWhitespace == {" ", "\t", "\n", "\r"}

reNewline == {"\n", "\r"}

reDelimiters == {"-", "+", "*", "/", "[", "]", "(", ")", "<", ">"}

reOperators == {"-", "+", "*", "/", "<", ">"}

reDigit == {"0", "1", "2", "3", "4", "5", "6", "7", "8", "9"}

\* source.charAt(end): the empty string outside the source.
peek(source, end) == IF end >= 0 /\ end < Len(source) THEN source[end + 1] ELSE ""

\* source.charAt(end - 1).
prev(source, end) == peek(source, end - 1)

RECURSIVE Text(_)
\* The string made of the characters cs.
Text(cs) == IF cs = <<>> THEN "" ELSE Head(cs) \o Text(Tail(cs))

\* The token a word is: its first character apart when it is a quote or a
\* colon.
Word(cs) ==
    IF cs # <<>> /\ Head(cs) = "\"" THEN Q(Text(Tail(cs)))
    ELSE IF cs # <<>> /\ Head(cs) = ":" THEN V(Text(Tail(cs)))
    ELSE W(Text(cs))

DigitValue(c) ==
    CASE c = "0" -> 0 [] c = "1" -> 1 [] c = "2" -> 2 [] c = "3" -> 3 [] c = "4" -> 4
      [] c = "5" -> 5 [] c = "6" -> 6 [] c = "7" -> 7 [] c = "8" -> 8 [] OTHER -> 9

RECURSIVE Digits(_, _)
\* The end of the run of digits that starts at end.
Digits(source, end) ==
    IF peek(source, end) \in reDigit THEN Digits(source, end + 1) ELSE end

RECURSIVE Decimal(_)
\* The number a run of digits denotes.
Decimal(cs) ==
    IF cs = <<>> THEN 0
    ELSE 10 * Decimal(SubSeq(cs, 1, Len(cs) - 1)) + DigitValue(cs[Len(cs)])

\* parseFloat of a number token: an integer when the token has neither a
\* fraction nor an exponent with digits; otherwise the value is kept as the
\* text that denotes it.
parseFloat(cs, intEnd, plain) ==
    LET neg == cs # <<>> /\ Head(cs) = "-"
        int == Decimal(SubSeq(cs, IF neg THEN 2 ELSE 1, intEnd))
    IN IF plain THEN Num(IF neg THEN 0 - int ELSE int)
       ELSE [Num(0) EXCEPT !.a = Text(cs)]

Record(ps, val) == [ps EXCEPT !.out = Append(@, val)]

Throw(ps, e) == [ps EXCEPT !.err = e]

RECURSIVE parseComment(_, _)
\* parse.parseComment after the ";": consumes through the end of the line,
\* or one position past the end of the input.
parseComment(source, ps) ==
    LET char == peek(source, ps.end)
        next == [ps EXCEPT !.end = @ + 1]
    IN IF char = "" \/ char \in reNewline THEN next ELSE parseComment(source, next)

\* parse.parseNumber, entered on a "-" or a digit.
parseNumber(source, ps) ==
    LET last == prev(source, ps.end)
        token == peek(source, ps.end)
        e1 == ps.end + 1
        next == peek(source, e1)
        e2 == Digits(source, e1)
        frac == peek(source, e2) = "."
        e3 == IF frac THEN Digits(source, e2 + 1) ELSE e2
        expo == peek(source, e3) = "e"
        e4 == IF expo /\ peek(source, e3 + 1) \in {"-", "+"} THEN e3 + 2
              ELSE IF expo THEN e3 + 1 ELSE e3
        e5 == IF expo THEN Digits(source, e4) ELSE e3
        char == peek(source, e5)
        cs == SubSeq(source, ps.end + 1, e5)
    IN IF token = "-" /\ (~(last = "" \/ last \in reWhitespace) \/ next \notin reDigit)
       THEN Record([ps EXCEPT !.end = e1], W(token))
       ELSE IF frac /\ peek(source, e2 + 1) \notin reDigit
       THEN Throw([ps EXCEPT !.end = e2 + 1], "SyntaxError")
       ELSE IF char = "" \/ char \in reDelimiters \/ char \in reWhitespace
       THEN Record([ps EXCEPT !.end = e5],
                   parseFloat(cs, e2 - ps.end, ~frac /\ (~expo \/ e5 = e4)))
       ELSE [ps EXCEPT !.end = e5]

RECURSIVE parseWord(_, _, _)
\* parse.parseWord with the characters of the token gathered so far.
parseWord(source, ps, token) ==
    LET char == peek(source, ps.end)
        take(c, n) == parseWord(source, [ps EXCEPT !.end = @ + n], Append(token, c))
    IN IF char = "" \/ char \in reWhitespace THEN Record(ps, Word(token))
       ELSE IF char \in reDelimiters
       THEN IF token = << "\"" >> /\ char \notin {"[", "]"}
            THEN take(char, 1)
            ELSE Record(ps, Word(token))
       ELSE IF char = "\\"
       THEN IF peek(source, ps.end + 1) = ""
            THEN parseWord(source, [ps EXCEPT !.end = @ + 2], token)
            ELSE take(peek(source, ps.end + 1), 2)
       ELSE take(char, 1)

RECURSIVE parseMain(_, _)
RECURSIVE parseList(_, _)
\* parse.parseList after the "[": items up to the matching "]"; returns the
\* state with the items as its tokens.
parseList(source, ps) ==
    LET char == peek(source, ps.end)
        after == parseMain(source, ps)
    IN IF char = "" THEN Throw(ps, "SyntaxError")
       ELSE IF char = "]" THEN [ps EXCEPT !.end = @ + 1]
       ELSE IF after.err # "none" THEN after
       ELSE parseList(source, after)

\* parse.parseMain: one token, list, comment or blank.
parseMain(source, ps) ==
    LET char == peek(source, ps.end)
        sub == parseList(source, [ps EXCEPT !.end = @ + 1, !.out = <<>>])
    IN IF char = "" THEN Throw(ps, "SyntaxError")
       ELSE IF char = ";" THEN parseComment(source, [ps EXCEPT !.end = @ + 1])
       ELSE IF char = "["
       THEN IF sub.err # "none" THEN [sub EXCEPT !.out = ps.out]
            ELSE [sub EXCEPT !.out = Append(ps.out, L(sub.out))]
       ELSE IF char \in reWhitespace THEN [ps EXCEPT !.end = @ + 1]
       ELSE IF char = "-" \/ char \in reDigit THEN parseNumber(source, ps)
       ELSE IF char \in {"(", ")"} THEN Record([ps EXCEPT !.end = @ + 1], W(char))
       ELSE IF char \in reOperators THEN Record([ps EXCEPT !.end = @ + 1], W(char))
       ELSE parseWord(source, ps, <<>>)

\* One pass of the loop of parse, which ends at the end of the input.  A
\* pass that neither consumes nor throws leaves the cursor where it was, so
\* every later pass does the same: the loop never ends ("diverges").
parsePass(source, ps) ==
    LET after == parseMain(source, ps)
    IN IF ps.err # "none" \/ peek(source, ps.end) = "" THEN ps
       ELSE IF after.err # "none" THEN after
       ELSE IF after.end = ps.end THEN Throw(after, "diverges")
       ELSE after

RECURSIVE parseLoop(_, _, _)
\* n passes of the loop of parse, halved so that a long source does not
\* nest the evaluation deeply.
parseLoop(source, ps, n) ==
    IF n = 0 THEN ps
    ELSE IF n = 1 THEN parsePass(source, ps)
    ELSE LET half == parseLoop(source, ps, n \div 2)
         IN IF half.err # "none" THEN half
            ELSE parseLoop(source, half, n - (n \div 2))

\* Interpreter.parse: the token list, or the error.  Every pass that does
\* not end the loop consumes a character, so Len(source) passes reach the
\* end of the input.
parse(source) ==
    parseLoop(source, [end |-> 0, out |-> <<>>, err |-> "none"], Len(source))

(***************************************************************************)
(* The programs handed to execute: each is the sequence of the characters  *)
(* of the source text quoted above it.                                     *)
(***************************************************************************)
\* Iterations of the repeat loops of the programs below.
RepeatCount == 2

\* Frames waited by the wait calls of the programs below.
WaitFrames == 2

\* The character that denotes a one-digit number.
Digit(n) == CHOOSE c \in reDigit : DigitValue(c) = n

\* print 1 wait 2 print ( 1 + 2 ) * 2
ProgWait ==
    << "p", "r", "i", "n", "t", " ", "1", " ", "w", "a", "i", "t", " " >>
    \o << Digit(WaitFrames) >>
    \o << " ", "p", "r", "i", "n", "t", " ", "(", " ", "1", " ", "+", " ", "2", " ", ")", " ",
       "*", " ", "2" >>

\* The definitions the programs below start with:
\*   to f repeat 2 [ print 1 stop print 2 ] end
\*   to g print run [ output 5 ] end
\*   to sq :n if :n > 0 [ output :n * :n ] print 0 end
\*   to h apply [ [ x ] print :x stop print 2 ] [ 7 ] print 3 end
\*   to w wait 2 print :nosuch end
Library ==
    << "t", "o", " ", "f", " ", "r", "e", "p", "e", "a", "t", " " >>
    \o << Digit(RepeatCount) >>
    \o << " ", "[", " ", "p", "r", "i", "n", "t", " ", "1", " ", "s", "t", "o", "p", " ", "p",
       "r", "i", "n", "t", " ", "2", " ", "]", " ", "e", "n", "d", "\n", "t", "o", " ",
       "g", " ", "p", "r", "i", "n", "t", " ", "r", "u", "n", " ", "[", " ", "o", "u", "t",
       "p", "u", "t", " ", "5", " ", "]", " ", "e", "n", "d", "\n", "t", "o", " ", "s",
       "q", " ", ":", "n", " ", "i", "f", " ", ":", "n", " ", ">", " ", "0", " ", "[", " ",
       "o", "u", "t", "p", "u", "t", " ", ":", "n", " ", "*", " ", ":", "n", " ", "]", " ",
       "p", "r", "i", "n", "t", " ", "0", " ", "e", "n", "d", "\n", "t", "o", " ", "h",
       " ", "a", "p", "p", "l", "y", " ", "[", " ", "[", " ", "x", " ", "]", " ", "p", "r",
       "i", "n", "t", " ", ":", "x", " ", "s", "t", "o", "p", " ", "p", "r", "i", "n", "t",
       " ", "2", " ", "]", " ", "[", " ", "7", " ", "]", " ", "p", "r", "i", "n", "t", " ",
       "3", " ", "e", "n", "d", "\n", "t", "o", " ", "w", " ", "w", "a", "i", "t", " " >>
    \o << Digit(WaitFrames) >>
    \o << " ", "p", "r", "i", "n", "t", " ", ":", "n", "o", "s", "u", "c", "h", " ", "e", "n",
       "d", "\n" >>

\* f print 3
ProgStop == Library \o << "f", " ", "p", "r", "i", "n", "t", " ", "3" >>

\* print g
ProgOutputArg == Library \o << "p", "r", "i", "n", "t", " ", "g" >>

\* print sq 2
ProgOutput == Library \o << "p", "r", "i", "n", "t", " ", "s", "q", " ", "2" >>

\* h print 4
ProgTemplate == Library \o << "h", " ", "p", "r", "i", "n", "t", " ", "4" >>

\* w
ProgError == Library \o << "w" >>

\* repeat 2 [ ( print 1 2 ) ] if true [ stop ]
ProgTopStop ==
    << "r", "e", "p", "e", "a", "t", " " >>
    \o << Digit(RepeatCount) >>
    \o << " ", "[", " ", "(", " ", "p", "r", "i", "n", "t", " ", "1", " ", "2", " ", ")", " ",
       "]", " ", "i", "f", " ", "t", "r", "u", "e", " ", "[", " ", "s", "t", "o", "p", " ",
       "]" >>

\* apply [ [ x ] output :x ] [ 7 ]
ProgTopOutput ==
    << "a", "p", "p", "l", "y", " ", "[", " ", "[", " ", "x", " ", "]", " ", "o", "u", "t",
       "p", "u", "t", " ", ":", "x", " ", "]", " ", "[", " ", "7", " ", "]" >>

Programs ==
    { ProgWait, ProgStop, ProgOutputArg, ProgOutput, ProgTemplate, ProgError,
      ProgTopStop, ProgTopOutput }

(***************************************************************************)
(* Programs run one after the other on one interpreter.                    *)
(***************************************************************************)
\* The definitions these programs start with:
\*   to sq :n output :n * :n end
\*   to two output 2 end
\*   to caller print two print 3 end
\*   to quit stop print 1 end
\*   to noout print 4 end
\*   to setx make "x 1 end
\*   to deep :a setx end
\*   to mid :x setx print :x end
\*   to gl :x global "x make "x 9 print :x end
\*   to lo local "x make "x 3 global "x make "x 4 print :x end
\*   to in global "x make "x 6 end
\*   to sh :x in print :x end
\*   to al :x global "x setx print :x end
\*   to bump make "x :x * 2 output :x end
Definitions ==
    << "t", "o", " ", "s", "q", " ", ":", "n", " ", "o", "u", "t", "p", "u", "t", " ", ":",
       "n", " ", "*", " ", ":", "n", " ", "e", "n", "d", "\n", "t", "o", " ", "t", "w",
       "o", " ", "o", "u", "t", "p", "u", "t", " ", "2", " ", "e", "n", "d", "\n", "t",
       "o", " ", "c", "a", "l", "l", "e", "r", " ", "p", "r", "i", "n", "t", " ", "t", "w",
       "o", " ", "p", "r", "i", "n", "t", " ", "3", " ", "e", "n", "d", "\n", "t", "o",
       " ", "q", "u", "i", "t", " ", "s", "t", "o", "p", " ", "p", "r", "i", "n", "t", " ",
       "1", " ", "e", "n", "d", "\n", "t", "o", " ", "n", "o", "o", "u", "t", " ", "p",
       "r", "i", "n", "t", " ", "4", " ", "e", "n", "d", "\n", "t", "o", " ", "s", "e",
       "t", "x", " ", "m", "a", "k", "e", " ", "\"", "x", " ", "1", " ", "e", "n", "d",
       "\n", "t", "o", " ", "d", "e", "e", "p", " ", ":", "a", " ", "s", "e", "t", "x",
       " ", "e", "n", "d", "\n", "t", "o", " ", "m", "i", "d", " ", ":", "x", " ", "s",
       "e", "t", "x", " ", "p", "r", "i", "n", "t", " ", ":", "x", " ", "e", "n", "d",
       "\n", "t", "o", " ", "g", "l", " ", ":", "x", " ", "g", "l", "o", "b", "a", "l",
       " ", "\"", "x", " ", "m", "a", "k", "e", " ", "\"", "x", " ", "9", " ", "p", "r",
       "i", "n", "t", " ", ":", "x", " ", "e", "n", "d", "\n", "t", "o", " ", "l", "o",
       " ", "l", "o", "c", "a", "l", " ", "\"", "x", " ", "m", "a", "k", "e", " ", "\"",
       "x", " ", "3", " ", "g", "l", "o", "b", "a", "l", " ", "\"", "x", " ", "m", "a",
       "k", "e", " ", "\"", "x", " ", "4", " ", "p", "r", "i", "n", "t", " ", ":", "x",
       " ", "e", "n", "d", "\n", "t", "o", " ", "i", "n", " ", "g", "l", "o", "b", "a",
       "l", " ", "\"", "x", " ", "m", "a", "k", "e", " ", "\"", "x", " ", "6", " ", "e",
       "n", "d", "\n", "t", "o", " ", "s", "h", " ", ":", "x", " ", "i", "n", " ", "p",
       "r", "i", "n", "t", " ", ":", "x", " ", "e", "n", "d", "\n", "t", "o", " ", "a",
       "l", " ", ":", "x", " ", "g", "l", "o", "b", "a", "l", " ", "\"", "x", " ", "s",
       "e", "t", "x", " ", "p", "r", "i", "n", "t", " ", ":", "x", " ", "e", "n", "d",
       "\n", "t", "o", " ", "b", "u", "m", "p", " ", "m", "a", "k", "e", " ", "\"", "x",
       " ", ":", "x", " ", "*", " ", "2", " ", "o", "u", "t", "p", "u", "t", " ", ":", "x",
       " ", "e", "n", "d", "\n" >>

\* print sq 7
SeqSq ==
    Definitions
    \o << "p", "r", "i", "n", "t", " ", "s", "q", " ", "7" >>

\* caller
SeqNested ==
    Definitions
    \o << "c", "a", "l", "l", "e", "r" >>

\* quit noout
SeqStop ==
    Definitions
    \o << "q", "u", "i", "t", " ", "n", "o", "o", "u", "t" >>

\* print quit
SeqNoValue ==
    Definitions
    \o << "p", "r", "i", "n", "t", " ", "q", "u", "i", "t" >>

\* make "y 5 stop
SeqFail ==
    Definitions
    \o << "m", "a", "k", "e", " ", "\"", "y", " ", "5", " ", "s", "t", "o", "p" >>

\* print sq :y
SeqLater ==
    << "p", "r", "i", "n", "t", " ", "s", "q", " ", ":", "y" >>

\* deep 0 print :x
SeqDeep ==
    Definitions
    \o << "d", "e", "e", "p", " ", "0", " ", "p", "r", "i", "n", "t", " ", ":", "x" >>

\* mid 0
SeqMid ==
    Definitions
    \o << "m", "i", "d", " ", "0" >>

\* gl 2 print :x
SeqGlobal ==
    Definitions
    \o << "g", "l", " ", "2", " ", "p", "r", "i", "n", "t", " ", ":", "x" >>

\* lo print :x
SeqLocal ==
    Definitions
    \o << "l", "o", " ", "p", "r", "i", "n", "t", " ", ":", "x" >>

\* sh 5 print :x
SeqShadow ==
    Definitions
    \o << "s", "h", " ", "5", " ", "p", "r", "i", "n", "t", " ", ":", "x" >>

\* al 0 print :x
SeqAlias ==
    Definitions
    \o << "a", "l", " ", "0", " ", "p", "r", "i", "n", "t", " ", ":", "x" >>

\* make "x 1 print sum bump sq :x print :x
SeqOrder ==
    Definitions
    \o << "m", "a", "k", "e", " ", "\"", "x", " ", "1", " ", "p", "r", "i", "n", "t", " ",
       "s", "u", "m", " ", "b", "u", "m", "p", " ", "s", "q", " ", ":", "x", " ", "p", "r",
       "i", "n", "t", " ", ":", "x" >>

SeqPrograms ==
    { SeqSq, SeqNested, SeqStop, SeqNoValue, SeqFail, SeqLater, SeqDeep,
      SeqMid, SeqGlobal, SeqLocal, SeqShadow, SeqAlias, SeqOrder }

(***************************************************************************)
(* Programs that print one infix expression.                               *)
(***************************************************************************)
\* The operands of the generated expressions are 1..MaxOperand.
MaxOperand == 2

\* The operators of the generated expressions.
ExprOperators == {"+", "-", "*"}

\* The expressions generated: an operator between each two operands.  Every
\* expression of three operands, and those of four operands whose middle
\* operator has a higher priority than its two neighbours.
Exprs ==
    [operands : [1..3 -> 1..MaxOperand], ops : [1..2 -> ExprOperators]]
    \cup {e \in [operands : [1..4 -> 1..MaxOperand], ops : [1..3 -> ExprOperators]] :
              /\ precedence(e.ops[2]) > precedence(e.ops[1])
              /\ precedence(e.ops[2]) > precedence(e.ops[3])}

\* The source text `print a op b op c ...` of an expression: the tokens are
\* separated by one space.
ExprSource(e) ==
    << "p", "r", "i", "n", "t" >>
    \o [k \in 1..(2 * (2 * Len(e.operands) - 1)) |->
           IF k % 2 = 1 THEN " "
           ELSE IF (k \div 2) % 2 = 1 THEN Digit(e.operands[((k \div 2) + 1) \div 2])
           ELSE e.ops[(k \div 2) \div 2]]

\* print 10 - 4 - 3
ExprChain == << "p", "r", "i", "n", "t", " ", "1", "0", " ", "-", " ", "4", " ", "-", " ", "3" >>

\* print 1 + 2 * 3 - 4
ExprMixed ==
    << "p", "r", "i", "n", "t", " ", "1", " ", "+", " ", "2", " ", "*", " ", "3", " ", "-",
       " ", "4" >>

\* print -3 + 4
ExprNegative == << "p", "r", "i", "n", "t", " ", "-", "3", " ", "+", " ", "4" >>

\* print 3-4
ExprTight == << "p", "r", "i", "n", "t", " ", "3", "-", "4" >>

\* print 3 - 4
ExprSpaced == << "p", "r", "i", "n", "t", " ", "3", " ", "-", " ", "4" >>

\* print 3 -4
ExprAdjacent == << "p", "r", "i", "n", "t", " ", "3", " ", "-", "4" >>

ExprPrograms ==
    {ExprSource(e) : e \in Exprs}
    \cup {ExprChain, ExprMixed, ExprNegative, ExprTight, ExprSpaced, ExprAdjacent}

(***************************************************************************)
(* Short source texts over a minus sign, a digit, a blank and a letter.    *)
(***************************************************************************)
\* The length of the generated source texts is at most MaxSourceLen.
MaxSourceLen == 3

ParseAlphabet == {"-", "3", " ", "x"}

ParseSources ==
    UNION {[1..n -> ParseAlphabet] : n \in 1..MaxSourceLen}
    \cup {ExprNegative, ExprTight, ExprSpaced, ExprAdjacent}

\* Programs that iterate a template over lists of data.
\* The longest list of data.
MaxData == 2

RECURSIVE DataItems(_, _)
\* The text of n items, the digits from `first` on.
DataItems(n, first) ==
    IF n = 0 THEN <<>>
    ELSE IF n = 1 THEN << Digit(first) >>
    ELSE DataItems(n - 1, first) \o << " ", Digit(first + n - 1) >>

\* The values of those items.
DataValues(n, first) == [i \in 1..n |-> Num(first + i - 1)]

\* (foreach [1 ...] [5 ...] [[x y] print sum :x :y]), the lists n1 and n2 long
ForeachSource(n1, n2) ==
    << "(", "f", "o", "r", "e", "a", "c", "h", " ", "[" >> \o DataItems(n1, 1)
    \o << "]", " ", "[" >> \o DataItems(n2, 5)
    \o << "]", " ", "[", "[", "x", " ", "y", "]", " ", "p", "r", "i", "n", "t", " ", "s", "u",
       "m", " ", ":", "x", " ", ":", "y", "]", ")" >>

\* print (map [1 ...] [5 ...] [[x y] sum :x :y]), the lists n1 and n2 long
MapSource(n1, n2) ==
    << "p", "r", "i", "n", "t", " ", "(", "m", "a", "p", " ", "[" >> \o DataItems(n1, 1)
    \o << "]", " ", "[" >> \o DataItems(n2, 5)
    \o << "]", " ", "[", "[", "x", " ", "y", "]", " ", "s", "u", "m", " ", ":", "x", " ", ":",
       "y", "]", ")" >>

\* foreach [1 ...] [[x] print :x], the list n long
ForeachOne(n) ==
    << "f", "o", "r", "e", "a", "c", "h", " ", "[" >> \o DataItems(n, 1)
    \o << "]", " ", "[", "[", "x", "]", " ", "p", "r", "i", "n", "t", " ", ":", "x", "]" >>

\* foreach [1 2] "print
ForeachNamed == << "f", "o", "r", "e", "a", "c", "h", " ", "[", "1", " ", "2", "]", " ", "\"", "p",
       "r", "i", "n", "t" >>

\* foreach [1] [[x] print :y], whose template reads a variable nobody made
ForeachUnbound == << "f", "o", "r", "e", "a", "c", "h", " ", "[", "1", "]", " ", "[", "[", "x",
       "]", " ", "p", "r", "i", "n", "t", " ", ":", "y", "]" >>

MapPrograms ==
    {ForeachSource(n1, n2) : n1 \in 0..MaxData, n2 \in 0..MaxData}
    \cup {MapSource(n1, n2) : n1 \in 0..MaxData, n2 \in 0..MaxData}
    \cup {ForeachOne(n) : n \in 0..MaxData}
    \cup {ForeachNamed, ForeachUnbound}

\* Programs that loop.
\* forever [ ]
LoopForeverEmpty == << "f", "o", "r", "e", "v", "e", "r", " ", "[", " ", "]" >>

\* repeat 2 [ ]
LoopRepeatEmpty == << "r", "e", "p", "e", "a", "t", " ", "2", " ", "[", " ", "]" >>

\* repeat 2 [ 1 ]
LoopRepeatLiteral == << "r", "e", "p", "e", "a", "t", " ", "2", " ", "[", " ", "1", " ", "]" >>

\* repeat 2 [ print 1 ]
LoopRepeatPrint == << "r", "e", "p", "e", "a", "t", " ", "2", " ", "[", " ", "p", "r", "i", "n", "t", " ", 
       "1", " ", "]" >>

\* forever [ stop ]
LoopForeverStop == << "f", "o", "r", "e", "v", "e", "r", " ", "[", " ", "s", "t", "o", "p", " ", "]" >>

LoopPrograms ==
    {LoopForeverEmpty, LoopRepeatEmpty, LoopRepeatLiteral, LoopRepeatPrint, LoopForeverStop}

\* Programs made of a few words: two builtins, a number and an unbound name.
\* The longest such program, in words.
MaxWords == 3

ArityWords == {<< "p", "r", "i", "n", "t" >>, << "s", "u", "m" >>, << "1" >>, << "z", "z" >>}

RECURSIVE Join(_)
\* The words with one blank between them.
Join(words) ==
    IF Len(words) = 1 THEN Head(words) ELSE Head(words) \o << " " >> \o Join(Tail(words))

ArityPrograms == {Join(words) : words \in UNION {[1..n -> ArityWords] : n \in 1..MaxWords}}

\* print sum 1
ArityShort == << "p", "r", "i", "n", "t", " ", "s", "u", "m", " ", "1" >>

\* print zz 1
ArityUnbound == << "p", "r", "i", "n", "t", " ", "z", "z", " ", "1" >>

\* print print 1
ArityCommand == << "p", "r", "i", "n", "t", " ", "p", "r", "i", "n", "t", " ", "1" >>

\* print sum 1 1
ArityFull == << "p", "r", "i", "n", "t", " ", "s", "u", "m", " ", "1", " ", "1" >>

\* Source texts of numbers, words and the characters "=" and "<".
TokenAlphabet == {"3", "a", "=", "<", " "}

\* a=b
TokenEquals == << "a", "=", "b" >>

\* a<b
TokenLess == << "a", "<", "b" >>

\* print 3=3
TokenPrintEquals == << "p", "r", "i", "n", "t", " ", "3", "=", "3" >>

\* print 3<4
TokenPrintLess == << "p", "r", "i", "n", "t", " ", "3", "<", "4" >>

\* print 3 = 3
TokenPrintSpaced == << "p", "r", "i", "n", "t", " ", "3", " ", "=", " ", "3" >>

\* [a [3] a] 3
TokenNested == << "[", "a", " ", "[", "3", "]", " ", "a", "]", " ", "3" >>

\* [3a]
TokenNestedNumber == << "[", "3", "a", "]" >>

TokenSources ==
    UNION {[1..n -> TokenAlphabet] : n \in 1..MaxSourceLen}
    \cup {TokenEquals, TokenLess, TokenPrintEquals, TokenPrintLess, TokenPrintSpaced,
          TokenNested, TokenNestedNumber}

\* Source texts of brackets, backslashes and words.
StrayAlphabet == {"[", "]", "\\", "x"}

StraySources == UNION {[1..n -> StrayAlphabet] : n \in 1..MaxSourceLen}

\* What parse returns for the sources of each family, computed once: the
\* tables execute looks this.parse(source) up in.
ParsedPrograms == [source \in Programs |-> parse(source)]

ParsedSeq == [source \in SeqPrograms |-> parse(source)]

ParsedExpr == [source \in ExprPrograms |-> parse(source)]

ParsedMap == [source \in MapPrograms |-> parse(source)]

ParsedArity == [source \in ArityPrograms \cup {ArityFull} |-> parse(source)]

ParsedSources == [source \in ParseSources |-> parse(source)]

ParsedToken == [source \in TokenSources |-> parse(source)]

ParsedStray == [source \in StraySources |-> parse(source)]
ParsedLoop == [source \in LoopPrograms |-> parse(source)]

(***************************************************************************)
(* State.                                                                  *)
(***************************************************************************)
VARIABLES
    running,        \* this.running
    breakFlag,      \* this.breakFlag
    paused,         \* this.paused
    onbreak,        \* this.onbreak: "null", "wait" (installed by wait) or
                    \* "check" (installed by checkBreak)
    oncontinue,     \* this.oncontinue: "null" or "set" (installed by checkBreak)
    scopes,         \* this.scopes: each scope maps its own names to cells
    bindings,       \* the Binding cells the scopes refer to, with their values
    contexts,       \* this.contexts
    procedureScope, \* this.procedureScope: name -> function object
    hooks,     \* whether the host installed oncall, onvalue and onprint
    program,        \* the source text handed to the last execute that was not refused
    lists,          \* the List records: number -> head and tail
    builder,        \* a ListBuilder: its fields list and end
    stack,          \* the activation frames of the running execute, innermost last
    err,            \* the error being propagated to the caller, or "none"
    timer,          \* the timeout of the wait in flight: "none" or "armed"
    result,         \* how the last execute ended: "none" (none ended yet), "ok" or its error
    api,            \* the call of the control surface made in the last step, if any,
                    \* and the error it raised
    calls,          \* the functions invoked by the current execute, in order, each
                    \* with its arguments and the depth of the context stack
    observed,       \* the observers fired by the current execute, in order
    brk             \* where the computation was when break() was accepted, and
                    \* what has been observed since

vars ==
    << running, breakFlag, paused, onbreak, oncontinue, scopes, bindings, contexts,
       procedureScope, hooks, program, lists, builder, stack, err, timer, result, api,
       calls, observed, brk >>

(***************************************************************************)
(* Activation frames.  k names the function the frame is an activation of, *)
(* pc the await it is suspended at; acc receives the value of the call     *)
(* awaited.  The handlers of one evaluate share its cursor `iter` and its  *)
(* captured context and scope: ev is the position of that evaluate frame.  *)
(***************************************************************************)
F0 ==
    [k |-> "", pc |-> "", iter |-> <<>>, ctx |-> 0, scp |-> 0, acc |-> Undef,
     func |-> NoFunc, args |-> <<>>, val |-> Undef, prio |-> 0, ev |-> 0, i |-> 0]

Top == stack[Len(stack)]

Pop(s) == SubSeq(s, 1, Len(s) - 1)

\* The innermost frame returns v to the frame awaiting it.
Return(s, v) == [Pop(s) EXCEPT ![Len(s) - 1].acc = v]

IterHead(it) == IF it = <<>> THEN Undef ELSE Head(it)

IterTail(it) == IF it = <<>> THEN <<>> ELSE Tail(it)

\* A new activation of evaluate(body): it captures the current scope and
\* the current context.
NewEvaluate(body, scps, ctxs) ==
    [F0 EXCEPT !.k = "evaluate", !.pc = "loop", !.iter = body,
               !.scp = Len(scps), !.ctx = Len(ctxs)]

NewHandleArg(prio, ev) ==
    [F0 EXCEPT !.k = "handleArg", !.pc = "start", !.prio = prio, !.ev = ev]

NewHandleOperator(leftValue, oldprio, ev) ==
    [F0 EXCEPT !.k = "handleOperator", !.pc = "start", !.val = leftValue,
               !.prio = oldprio, !.ev = ev]

NewPerformCall(func, args) ==
    [F0 EXCEPT !.k = "performCall", !.pc = "check", !.func = func, !.args = args]

Running == stack # <<>> /\ err = "none"

At(kind, pc) == Running /\ Top.k = kind /\ Top.pc = pc

ctl == << running, breakFlag, paused, onbreak, oncontinue >>

mem == << scopes, bindings, contexts, procedureScope >>

hist == << result, calls, brk >>

lib == << lists, builder >>

\* No call of the control surface is made in this step.
NoCall == [op |-> "none", err |-> "none"]

Step == api' = NoCall

\* History: an observer (oncall, onvalue, onprint; "" for none) fires if the
\* host installed it, and a function is invoked or not.
Log(observer, invoked) ==
    /\ observed' = IF hooks /\ observer # "" THEN Append(observed, observer) ELSE observed
    /\ brk' = IF brk.at = "none" THEN brk
              ELSE [brk EXCEPT !.observed = @ \/ (hooks /\ observer # ""),
                               !.invoked = @ \/ invoked]

Observe(name) == Log(name, FALSE)

\* The entry of the history for one invocation: the function, its arguments
\* and the number of contexts on the stack when it was invoked.
Call(name, args, depth) == [f |-> name, args |-> args, depth |-> depth]

NoObserve == UNCHANGED << observed, brk >>

(***************************************************************************)
(* evaluate.handleTo: reads `to NAME :arg ... body ... end` off the cursor *)
(* and installs the procedure.                                             *)
(***************************************************************************)
\* The number of leading tokens of s that are variable references.
LeadingVars(s) ==
    IF \A i \in 1..Len(s) : isVariable(s[i])
    THEN Len(s)
    ELSE (CHOOSE i \in 1..Len(s) :
              ~isVariable(s[i]) /\ \A j \in 1..(i - 1) : isVariable(s[j])) - 1

\* The position of the first token `end` of s, or 0.
FirstEnd(s) ==
    IF \A i \in 1..Len(s) : s[i] # W("end")
    THEN 0
    ELSE CHOOSE i \in 1..Len(s) :
             s[i] = W("end") /\ \A j \in 1..(i - 1) : s[j] # W("end")

\* Interpreter.procedure: the function object of a user procedure.
procedure(funcName, argNames, body) ==
    [name |-> funcName, kind |-> "proc", length |-> Len(argNames),
     params |-> argNames, body |-> body]

\* handleTo on the cursor iter (whose head is `to`): the error it throws,
\* or the procedure defined and the cursor left after `end`.
handleTo(iter) ==
    LET r1 == Tail(iter)
        r2 == Tail(r1)
        nargs == LeadingVars(r2)
        r3 == SubSeq(r2, nargs + 1, Len(r2))
        e == FirstEnd(r3)
        bad == [err |-> "SyntaxError", proc |-> NoFunc, rest |-> <<>>]
    IN IF r1 = <<>> \/ ~isString(Head(r1)) THEN bad
       ELSE IF nargs = Len(r2) \/ e = 0 THEN bad
       ELSE [err |-> "none",
             proc |-> procedure(Head(r1).a, [i \in 1..nargs |-> r2[i].a],
                                SubSeq(r3, 1, e - 1)),
             rest |-> SubSeq(r3, e + 1, Len(r3))]

\* A validateCommand that lets an unbound name pass for a command of no
\* arguments.
validateCommandUnbound(command, binary, procs) ==
    IF ~binary /\ command = W("-") THEN [err |-> "none", func |-> UnaryMinusFunc]
    ELSE IF ~isString(command) THEN [err |-> "SyntaxError", func |-> NoFunc]
    ELSE IF command.a \notin DOMAIN procs THEN [err |-> "none", func |-> NoFunc]
    ELSE [err |-> "none", func |-> procs[command.a]]

\* evaluate.validateCommand: the function bound to a command word, or the
\* error thrown.
validateCommand(command, binary, procs) ==
    IF ~binary /\ command = W("-") THEN [err |-> "none", func |-> UnaryMinusFunc]
    ELSE IF ~isString(command) THEN [err |-> "SyntaxError", func |-> NoFunc]
    ELSE IF command.a \notin DOMAIN procs THEN [err |-> "TypeError", func |-> NoFunc]
    ELSE [err |-> "none", func |-> procs[command.a]]

(***************************************************************************)
(* evaluate(body): the sequence evaluator's main loop.                     *)
(***************************************************************************)
Evaluate ==
    /\ At("evaluate", "loop")
    /\ LET f == Top
           n == Len(stack)
           to == handleTo(f.iter)
       IN IF contexts[f.ctx].stop
          THEN stack' = Return(stack, f.acc) /\ UNCHANGED << err, procedureScope >>
          ELSE IF f.acc # Undef
          THEN IF f.iter = <<>>
               THEN stack' = Return(stack, f.acc) /\ UNCHANGED << err, procedureScope >>
               ELSE err' = "SyntaxError" /\ UNCHANGED << stack, procedureScope >>
          ELSE IF f.iter = <<>>
          THEN stack' = Return(stack, f.acc) /\ UNCHANGED << err, procedureScope >>
          ELSE IF Head(f.iter) = W("to")
          THEN IF to.err # "none"
               THEN err' = to.err /\ UNCHANGED << stack, procedureScope >>
               ELSE /\ procedureScope' =
                           [x \in DOMAIN procedureScope \cup {to.proc.name} |->
                               IF x = to.proc.name THEN to.proc ELSE procedureScope[x]]
                    /\ stack' = [stack EXCEPT ![n].iter = to.rest]
                    /\ UNCHANGED err
          ELSE /\ stack' = Append(stack, NewHandleArg(0, n))
               /\ UNCHANGED << err, procedureScope >>
    /\ UNCHANGED << ctl, scopes, bindings, contexts, hooks, lib, program, timer, hist, observed >>
    /\ Step

(***************************************************************************)
(* evaluate.handleLiteral: the value of the literal token under the        *)
(* cursor, or the error thrown.                                            *)
(***************************************************************************)
handleLiteral(value, scps, cells, scp) ==
    IF isList(value) \/ isBoolean(value) \/ isNumber(value)
    THEN [err |-> "none", val |-> value]
    ELSE IF ~isString(value) THEN [err |-> "SyntaxError", val |-> Undef]
    ELSE IF value.sig = "\"" THEN [err |-> "none", val |-> W(value.a)]
    ELSE IF value.sig = ":"
    THEN IF ScopeHas(scps, scp, value.a)
         THEN [err |-> "none", val |-> ScopeGet(scps, cells, scp, value.a)]
         ELSE [err |-> "ReferenceError", val |-> Undef]
    ELSE [err |-> "SyntaxError", val |-> Undef]

(***************************************************************************)
(* evaluate.handleArg(prio): one expression.                               *)
(***************************************************************************)
HandleArg ==
    /\ Running /\ Top.k = "handleArg"
    /\ LET f == Top
           n == Len(stack)
           e == stack[f.ev]
           head == IterHead(e.iter)
           lit == handleLiteral(head, scopes, bindings, e.scp)
       IN CASE f.pc = "start" /\ head = W("(") ->
                 /\ stack' = Append([stack EXCEPT ![n].pc = "after"],
                                    [F0 EXCEPT !.k = "handleVariadic", !.pc = "start",
                                               !.ev = f.ev])
                 /\ UNCHANGED err /\ NoObserve
            [] f.pc = "start" /\ head # W("(") /\ isLiteral(head) ->
                 IF lit.err # "none"
                 THEN err' = lit.err /\ UNCHANGED stack /\ NoObserve
                 ELSE /\ stack' = [stack EXCEPT ![n].pc = "after", ![n].acc = lit.val,
                                                ![f.ev].iter = IterTail(e.iter)]
                      /\ UNCHANGED err /\ Observe("onvalue")
            [] f.pc = "start" /\ head # W("(") /\ ~isLiteral(head) ->
                 /\ stack' = Append([stack EXCEPT ![n].pc = "after"],
                                    [F0 EXCEPT !.k = "handleFixed", !.pc = "start",
                                               !.ev = f.ev])
                 /\ UNCHANGED err /\ NoObserve
            [] f.pc = "after" /\ isOperator(head) ->
                 /\ stack' = Append([stack EXCEPT ![n].pc = "done"],
                                    NewHandleOperator(f.acc, f.prio, f.ev))
                 /\ UNCHANGED err /\ NoObserve
            [] OTHER ->
                 stack' = Return(stack, f.acc) /\ UNCHANGED err /\ NoObserve
    /\ UNCHANGED << ctl, mem, hooks, lib, program, timer, result, calls >>
    /\ Step

(***************************************************************************)
(* evaluate.handleFixed: a fixed-arity call; collects func.length          *)
(* arguments and performs the call.                                        *)
(***************************************************************************)
\* An argument loop that performs the call one argument short.
FixedLoopEarly(s, ctxs) ==
    LET n == Len(s)
        f == s[n]
        e == s[f.ev]
    IN IF ctxs[e.ctx].stop
       THEN [err |-> "none", stack |-> Return(s, Undef)]
       ELSE IF Len(f.args) + 1 >= f.func.length
       THEN [err |-> "none",
             stack |-> Append([s EXCEPT ![n].pc = "ret"], NewPerformCall(f.func, f.args))]
       ELSE IF e.iter = <<>> \/ Head(e.iter) = W(")")
       THEN [err |-> "SyntaxError", stack |-> s]
       ELSE [err |-> "none",
             stack |-> Append([s EXCEPT ![n].pc = "arg"], NewHandleArg(f.prio, f.ev))]

\* The argument loop of handleFixed, entered with the frame f on top of s.
FixedLoop(s, ctxs) ==
    LET n == Len(s)
        f == s[n]
        e == s[f.ev]
    IN IF ctxs[e.ctx].stop
       THEN [err |-> "none", stack |-> Return(s, Undef)]
       ELSE IF Len(f.args) >= f.func.length
       THEN [err |-> "none",
             stack |-> Append([s EXCEPT ![n].pc = "ret"], NewPerformCall(f.func, f.args))]
       ELSE IF e.iter = <<>> \/ Head(e.iter) = W(")")
       THEN [err |-> "SyntaxError", stack |-> s]
       ELSE [err |-> "none",
             stack |-> Append([s EXCEPT ![n].pc = "arg"], NewHandleArg(f.prio, f.ev))]

HandleFixed ==
    /\ Running /\ Top.k = "handleFixed"
    /\ LET f == Top
           n == Len(stack)
           e == stack[f.ev]
           command == IterHead(e.iter)
           v == validateCommand(command, FALSE, procedureScope)
           started == FixedLoop([stack EXCEPT ![n].func = v.func,
                                              ![f.ev].iter = IterTail(e.iter)], contexts)
           next == FixedLoop([stack EXCEPT ![n].args = Append(f.args, f.acc)], contexts)
       IN CASE f.pc = "start" ->
                 IF command = W(")") THEN err' = "SyntaxError" /\ UNCHANGED stack
                 ELSE IF v.err # "none" THEN err' = v.err /\ UNCHANGED stack
                 ELSE err' = started.err /\ stack' = started.stack
            [] f.pc = "arg" ->
                 IF f.acc = Undef THEN err' = "SyntaxError" /\ UNCHANGED stack
                 ELSE err' = next.err /\ stack' = next.stack
            [] OTHER -> stack' = Return(stack, f.acc) /\ UNCHANGED err
    /\ UNCHANGED << ctl, mem, hooks, lib, program, timer, hist, observed >>
    /\ Step

(***************************************************************************)
(* evaluate.handleVariadic: a call in the ( ... ) form.                    *)
(***************************************************************************)
VariadicLoop(s, ctxs) ==
    LET n == Len(s)
        f == s[n]
        e == s[f.ev]
        closed == [s EXCEPT ![f.ev].iter = IterTail(e.iter)]
    IN IF ctxs[e.ctx].stop
       THEN [err |-> "none", stack |-> Return(s, Undef)]
       ELSE IF e.iter = <<>>
       THEN [err |-> "SyntaxError", stack |-> s]
       ELSE IF Head(e.iter) = W(")")
       THEN IF f.func # NoFunc
            THEN IF Len(f.args) < f.func.length
                 THEN [err |-> "SyntaxError", stack |-> closed]
                 ELSE [err |-> "none",
                       stack |-> Append([closed EXCEPT ![n].pc = "ret"],
                                        NewPerformCall(f.func, f.args))]
            ELSE IF Len(f.args) > 0
                 THEN [err |-> "SyntaxError", stack |-> closed]
                 ELSE [err |-> "none", stack |-> Return(closed, f.val)]
       ELSE [err |-> "none",
             stack |-> Append([s EXCEPT ![n].pc = "arg"], NewHandleArg(0, f.ev))]

HandleVariadic ==
    /\ Running /\ Top.k = "handleVariadic"
    /\ LET f == Top
           n == Len(stack)
           e == stack[f.ev]
           inner == IterTail(e.iter)
           command == IterHead(inner)
           v == validateCommand(command, FALSE, procedureScope)
           started == VariadicLoop([stack EXCEPT ![n].func = v.func,
                                                 ![f.ev].iter = IterTail(inner)], contexts)
           literal == VariadicLoop([stack EXCEPT ![n].val = f.acc], contexts)
           next == VariadicLoop([stack EXCEPT ![n].args = Append(f.args, f.acc)], contexts)
       IN CASE f.pc = "start" ->
                 IF inner = <<>> THEN err' = "SyntaxError" /\ UNCHANGED stack
                 ELSE IF isProcedure(command)
                 THEN IF v.err # "none" THEN err' = v.err /\ UNCHANGED stack
                      ELSE err' = started.err /\ stack' = started.stack
                 ELSE /\ stack' = Append([stack EXCEPT ![n].pc = "lit", ![f.ev].iter = inner],
                                         NewHandleArg(0, f.ev))
                      /\ UNCHANGED err
            [] f.pc = "lit" -> err' = literal.err /\ stack' = literal.stack
            [] f.pc = "arg" ->
                 IF f.acc = Undef THEN err' = "SyntaxError" /\ UNCHANGED stack
                 ELSE err' = next.err /\ stack' = next.stack
            [] OTHER -> stack' = Return(stack, f.acc) /\ UNCHANGED err
    /\ UNCHANGED << ctl, mem, hooks, lib, program, timer, hist, observed >>
    /\ Step

(***************************************************************************)
(* evaluate.handleOperator(leftValue, oldprio): precedence climbing.  The  *)
(* frame keeps leftValue in val, oldprio in prio and the priority of its   *)
(* own operator in i.                                                      *)
(***************************************************************************)
HandleOperator ==
    /\ Running /\ Top.k = "handleOperator"
    /\ LET f == Top
           n == Len(stack)
           e == stack[f.ev]
           head == IterHead(e.iter)
           prio == precedence(head.a)
           v == validateCommand(head, TRUE, procedureScope)
           call(right) == Append([stack EXCEPT ![n].pc = "chain"],
                                 NewPerformCall(f.func, << f.val, right >>))
       IN CASE f.pc = "start" ->
                 IF prio < f.prio THEN stack' = Return(stack, f.val) /\ UNCHANGED err
                 ELSE IF v.err # "none" THEN err' = v.err /\ UNCHANGED stack
                 ELSE /\ stack' = Append([stack EXCEPT ![n].pc = "right", ![n].func = v.func,
                                                       ![n].i = prio,
                                                       ![f.ev].iter = IterTail(e.iter)],
                                         NewHandleArg(prio, f.ev))
                      /\ UNCHANGED err
            [] f.pc = "right" ->
                 /\ stack' = IF isOperator(head) /\ prio >= f.i
                             THEN Append([stack EXCEPT ![n].pc = "right2"],
                                         NewHandleOperator(f.acc, prio, f.ev))
                             ELSE call(f.acc)
                 /\ UNCHANGED err
            [] f.pc = "right2" -> stack' = call(f.acc) /\ UNCHANGED err
            [] f.pc = "chain" ->
                 /\ stack' = IF isOperator(head)
                             THEN Append([stack EXCEPT ![n].pc = "done"],
                                         NewHandleOperator(f.acc, prio, f.ev))
                             ELSE Return(stack, f.acc)
                 /\ UNCHANGED err
            [] OTHER -> stack' = Return(stack, f.acc) /\ UNCHANGED err
    /\ UNCHANGED << ctl, mem, hooks, lib, program, timer, hist, observed >>
    /\ Step

(***************************************************************************)
(* performCall(func, args): checkBreak, oncall, the function, onvalue.     *)
(***************************************************************************)
\* A checkBreak that does not look at breakFlag.
checkBreakIgnoringFlag(bf, p) == IF p THEN "park" ELSE "resolve"

\* What the promise of checkBreak does: it is rejected ("throw"), left
\* pending with the resolvers installed ("park"), or resolved ("resolve").
checkBreak(bf, p) == IF bf THEN "throw" ELSE IF p THEN "park" ELSE "resolve"

Parked(s, e) == s # <<>> /\ e = "none" /\ s[Len(s)].k = "performCall" /\ s[Len(s)].pc = "parked"

CheckBreak ==
    /\ At("performCall", "check")
    /\ LET o == checkBreak(breakFlag, paused)
           n == Len(stack)
       IN CASE o = "throw" ->
                 err' = "Break requested" /\ UNCHANGED << stack, onbreak, oncontinue >>
            [] o = "park" ->
                 /\ oncontinue' = "set"
                 /\ onbreak' = "check"
                 /\ stack' = [stack EXCEPT ![n].pc = "parked"]
                 /\ UNCHANGED err
            [] OTHER ->
                 /\ stack' = [stack EXCEPT ![n].pc = "oncall"]
                 /\ UNCHANGED << err, onbreak, oncontinue >>
    /\ UNCHANGED << running, breakFlag, paused, mem, hooks, lib, program, timer, hist, observed >>
    /\ Step

\* A performCall that goes on to the function without calling oncall.
OncallSkipped ==
    /\ At("performCall", "oncall")
    /\ stack' = [stack EXCEPT ![Len(stack)].pc = "invoke"]
    /\ NoObserve
    /\ UNCHANGED << ctl, mem, hooks, lib, program, err, timer, result, calls >>
    /\ Step

Oncall ==
    /\ At("performCall", "oncall")
    /\ stack' = [stack EXCEPT ![Len(stack)].pc = "invoke"]
    /\ Observe("oncall")
    /\ UNCHANGED << ctl, mem, hooks, lib, program, err, timer, result, calls >>
    /\ Step

Onvalue ==
    /\ At("performCall", "onvalue")
    /\ stack' = Return(stack, Top.acc)
    /\ Observe(IF Top.acc # Undef THEN "onvalue" ELSE "")
    /\ UNCHANGED << ctl, mem, hooks, lib, program, err, timer, result, calls >>
    /\ Step

Invoking(names) ==
    /\ At("performCall", "invoke")
    /\ Top.func.kind = "builtin"
    /\ Top.func.name \in names
    /\ calls' = Append(calls, Call(Top.func.name, Top.args, Len(contexts)))

\* The function returns v to performCall.
Returned(v) == stack' = [stack EXCEPT ![Len(stack)].pc = "onvalue", ![Len(stack)].acc = v]

Arg(n) == IF n <= Len(Top.args) THEN Top.args[n] ELSE Undef

\* The infix builtins, sum, true and the unary minus.
InvokeValue ==
    /\ At("performCall", "invoke")
    /\ \/ Top.func.kind = "unary"
       \/ Top.func.kind = "builtin" /\ Top.func.name \in InfixNames \cup {"sum", "true"}
    /\ calls' = Append(calls, Call(Top.func.name, Top.args, Len(contexts)))
    /\ Returned(CASE Top.func.kind = "unary" -> unaryMinus(Arg(1))
                  [] Top.func.name = "true" -> Bool(TRUE)
                  [] OTHER -> Arith(Top.func.name, Arg(1), Arg(2)))
    /\ Log("", TRUE)
    /\ UNCHANGED << ctl, mem, hooks, lib, program, err, timer, result >>
    /\ Step

\* builtins.print and Interpreter.print: the message goes to onprint.
InvokePrint ==
    /\ Invoking({"print"})
    /\ Returned(Undef)
    /\ Log("onprint", TRUE)
    /\ UNCHANGED << ctl, mem, hooks, lib, program, err, timer, result >>
    /\ Step

\* builtins.stop: the contexts after the call, or the error thrown.
stopAnywhere(ctxs) ==
    [err |-> "none", contexts |-> [ctxs EXCEPT ![Len(ctxs)].stop = TRUE]]

\* builtins.stop.
stop(ctxs) ==
    IF Len(ctxs) = 1
    THEN [err |-> "SyntaxError", contexts |-> ctxs]
    ELSE [err |-> "none", contexts |-> [ctxs EXCEPT ![Len(ctxs)].stop = TRUE]]

\* An output that stops the procedure and drops the value.
outputDroppingValue(ctxs, arg) ==
    IF Len(ctxs) = 1
    THEN [err |-> "SyntaxError", contexts |-> ctxs]
    ELSE [err |-> "none", contexts |-> [ctxs EXCEPT ![Len(ctxs)].stop = TRUE]]

\* builtins.output.
output(ctxs, arg) ==
    IF Len(ctxs) = 1
    THEN [err |-> "SyntaxError", contexts |-> ctxs]
    ELSE [err |-> "none",
          contexts |-> [ctxs EXCEPT ![Len(ctxs)].stop = TRUE, ![Len(ctxs)].output = arg]]

InvokeStop ==
    /\ Invoking({"stop"})
    /\ err' = stop(contexts).err
    /\ contexts' = stop(contexts).contexts
    /\ IF stop(contexts).err = "none" THEN Returned(Undef) ELSE UNCHANGED stack
    /\ Log("", TRUE)
    /\ UNCHANGED << ctl, scopes, bindings, procedureScope, hooks, lib, program, timer, result >>
    /\ Step

InvokeOutput ==
    /\ Invoking({"output"})
    /\ err' = output(contexts, Arg(1)).err
    /\ contexts' = output(contexts, Arg(1)).contexts
    /\ IF output(contexts, Arg(1)).err = "none" THEN Returned(Undef) ELSE UNCHANGED stack
    /\ Log("", TRUE)
    /\ UNCHANGED << ctl, scopes, bindings, procedureScope, hooks, lib, program, timer, result >>
    /\ Step

\* The names a call of local or global is about: the members of a list
\* argument or the argument itself, then the further arguments.
AllNames(args) ==
    IF args = <<>> THEN <<>>
    ELSE (IF isList(args[1]) THEN args[1].l ELSE << args[1] >>) \o Tail(args)

\* The key a name value is bound under.
Key(name) == name.sig \o name.a

RECURSIVE local(_, _, _, _)
\* builtins.local from the k-th name on: each name gets a new, empty cell in
\* the current scope; a name that is no string stops the loop with an error.
local(scps, cells, all, k) ==
    IF k > Len(all) THEN [err |-> "none", scopes |-> scps, bindings |-> cells]
    ELSE IF ~isString(all[k]) THEN [err |-> "TypeError", scopes |-> scps, bindings |-> cells]
    ELSE LET b == bindValue(scps, cells, Len(scps), Key(all[k]), Undef)
         IN local(b.scopes, b.bindings, all, k + 1)

RECURSIVE globalCopying(_, _, _, _)
\* A global that binds a cell of its own holding the global value.
globalCopying(scps, cells, all, k) ==
    IF k > Len(all) THEN [err |-> "none", scopes |-> scps, bindings |-> cells]
    ELSE IF ~isString(all[k]) THEN [err |-> "TypeError", scopes |-> scps, bindings |-> cells]
    ELSE LET n == Key(all[k])
             g == IF getBinding(scps, 1, n) # 0
                  THEN [scopes |-> scps, bindings |-> cells]
                  ELSE bindValue(scps, cells, 1, n, Undef)
             copy == bindValue(g.scopes, g.bindings, Len(scps), n,
                               ScopeGet(g.scopes, g.bindings, 1, n))
         IN globalCopying(copy.scopes, copy.bindings, all, k + 1)

RECURSIVE global(_, _, _, _)
\* builtins.global from the k-th name on: the cell the global scope has for
\* the name, created empty if there is none, is bound in the current scope.
global(scps, cells, all, k) ==
    IF k > Len(all) THEN [err |-> "none", scopes |-> scps, bindings |-> cells]
    ELSE IF ~isString(all[k]) THEN [err |-> "TypeError", scopes |-> scps, bindings |-> cells]
    ELSE LET n == Key(all[k])
             g == IF getBinding(scps, 1, n) # 0
                  THEN [scopes |-> scps, bindings |-> cells]
                  ELSE bindValue(scps, cells, 1, n, Undef)
             bound == bind(g.scopes, Len(scps), n, getBinding(g.scopes, 1, n))
         IN global(bound, Collect(bound, g.bindings), all, k + 1)

\* builtins.make.
make(scps, cells, name, val) ==
    IF ~isString(name) THEN [err |-> "TypeError", scopes |-> scps, bindings |-> cells]
    ELSE [err |-> "none",
          scopes |-> ScopeSet(scps, cells, Len(scps), Key(name), val).scopes,
          bindings |-> ScopeSet(scps, cells, Len(scps), Key(name), val).bindings]

\* make, local and global: the effect on the scopes, then return or throw.
Rebind(r) ==
    /\ scopes' = r.scopes
    /\ bindings' = r.bindings
    /\ err' = r.err
    /\ IF r.err = "none" THEN Returned(Undef) ELSE UNCHANGED stack
    /\ Log("", TRUE)
    /\ UNCHANGED << ctl, contexts, procedureScope, hooks, lib, program, timer, result >>
    /\ Step

InvokeMake ==
    /\ Invoking({"make"})
    /\ Rebind(make(scopes, bindings, Arg(1), Arg(2)))

InvokeLocal ==
    /\ Invoking({"local"})
    /\ Rebind(local(scopes, bindings, AllNames(Top.args), 1))

InvokeGlobal ==
    /\ Invoking({"global"})
    /\ Rebind(global(scopes, bindings, AllNames(Top.args), 1))

\* builtins.wait: arms the timeout and installs onbreak.
InvokeWait ==
    /\ Invoking({"wait"})
    /\ stack' = Append([stack EXCEPT ![Len(stack)].pc = "onvalue"],
                       [F0 EXCEPT !.k = "wait", !.pc = "inflight"])
    /\ timer' = "armed"
    /\ onbreak' = "wait"
    /\ Log("", TRUE)
    /\ UNCHANGED << running, breakFlag, paused, oncontinue, mem, hooks, lib, program, err, result >>
    /\ Step

\* The timeout of wait fires.
TimerFire ==
    /\ timer = "armed"
    /\ timer' = "none"
    /\ onbreak' = "null"
    /\ stack' = IF Running /\ Top.k = "wait" THEN Return(stack, Undef) ELSE stack
    /\ UNCHANGED << running, breakFlag, paused, oncontinue, mem, hooks, lib, program, err, hist,
                    observed >>
    /\ Step

\* builtins.run and builtins.if: evaluate the block in the current context.
InvokeRun ==
    /\ Invoking({"run", "if"})
    /\ LET block == IF Top.func.name = "run" THEN Arg(1) ELSE Arg(2)
       IN IF Top.func.name = "if" /\ ~Truthy(Arg(1))
          THEN Returned(Undef) /\ UNCHANGED err
          ELSE IF ~isList(block)
          THEN err' = "TypeError" /\ UNCHANGED stack
          ELSE /\ stack' = Append([stack EXCEPT ![Len(stack)].pc = "onvalue"],
                                  NewEvaluate(block.l, scopes, contexts))
               /\ UNCHANGED err
    /\ Log("", TRUE)
    /\ UNCHANGED << ctl, mem, hooks, lib, program, timer, result >>
    /\ Step

\* builtins.repeat: the argument checks, then the loop below.
InvokeRepeat ==
    /\ Invoking({"repeat"})
    /\ IF ~isNumber(Arg(1)) \/ ~isList(Arg(2))
       THEN err' = "TypeError" /\ UNCHANGED stack
       ELSE /\ stack' = Append([stack EXCEPT ![Len(stack)].pc = "onvalue"],
                               [F0 EXCEPT !.k = "repeat", !.pc = "loop", !.args = Top.args])
            /\ UNCHANGED err
    /\ Log("", TRUE)
    /\ UNCHANGED << ctl, mem, hooks, lib, program, timer, result >>
    /\ Step

\* Whether repeat leaves its loop after an iteration.
repeatBreaks(ctxs) == ctxs[Len(ctxs)].stop

Repeat ==
    /\ Running /\ Top.k = "repeat"
    /\ LET f == Top
           n == Len(stack)
       IN stack' = IF (f.pc = "check" /\ repeatBreaks(contexts)) \/ ~(f.i < f.args[1].n)
                   THEN Return(stack, Undef)
                   ELSE Append([stack EXCEPT ![n].pc = "check", ![n].i = f.i + 1],
                               NewEvaluate(f.args[2].l, scopes, contexts))
    /\ UNCHANGED << ctl, mem, hooks, lib, program, err, timer, hist, observed >>
    /\ Step

\* builtins.forever: the loop below; the block is not checked.
InvokeForever ==
    /\ Invoking({"forever"})
    /\ stack' = Append([stack EXCEPT ![Len(stack)].pc = "onvalue"],
                       [F0 EXCEPT !.k = "forever", !.pc = "loop", !.args = Top.args])
    /\ Log("", TRUE)
    /\ UNCHANGED << ctl, mem, hooks, lib, program, err, timer, result >>
    /\ Step

\* One turn of the loop of forever: it leaves the loop only when the
\* iteration before has stopped the current context.  A block that is not a
\* list makes the evaluate it is handed to throw.
Forever ==
    /\ Running /\ Top.k = "forever"
    /\ LET f == Top
           n == Len(stack)
       IN IF f.pc = "check" /\ repeatBreaks(contexts)
          THEN stack' = Return(stack, Undef) /\ UNCHANGED err
          ELSE IF ~isList(f.args[1])
          THEN err' = "TypeError" /\ UNCHANGED stack
          ELSE /\ stack' = Append([stack EXCEPT ![n].pc = "check"],
                                  NewEvaluate(f.args[1].l, scopes, contexts))
               /\ UNCHANGED err
    /\ UNCHANGED << ctl, mem, hooks, lib, program, timer, hist, observed >>
    /\ Step

(***************************************************************************)
(* A user procedure (the func of Interpreter.procedure).                   *)
(***************************************************************************)
\* The scope binding each name to the argument at its position (undefined
\* past the arguments given).
RECURSIVE BindArgs(_, _, _, _, _)
\* scope.bindValue(name, args[index]) for the names from the k-th on, in the
\* scope just created (the last of scps).
BindArgs(scps, cells, names, args, k) ==
    IF k > Len(names) THEN [scopes |-> scps, bindings |-> cells]
    ELSE LET b == bindValue(scps, cells, Len(scps), names[k],
                            IF k <= Len(args) THEN args[k] ELSE Undef)
         IN BindArgs(b.scopes, b.bindings, names, args, k + 1)

InvokeProcedure ==
    /\ At("performCall", "invoke")
    /\ Top.func.kind = "proc"
    /\ calls' = Append(calls, Call(Top.func.name, Top.args, Len(contexts)))
    /\ scopes' = BindArgs(Append(scopes, EmptyScope), bindings, Top.func.params,
                          Top.args, 1).scopes
    /\ bindings' = BindArgs(Append(scopes, EmptyScope), bindings, Top.func.params,
                            Top.args, 1).bindings
    /\ contexts' = Append(contexts, Context)
    /\ stack' = [stack EXCEPT ![Len(stack)].pc = "onvalue"]
                \o << [F0 EXCEPT !.k = "procedure", !.pc = "finally"],
                      NewEvaluate(Top.func.body, scopes', contexts') >>
    /\ Log("", TRUE)
    /\ UNCHANGED << ctl, procedureScope, hooks, lib, program, err, timer, result >>
    /\ Step

\* The finally block of the procedure: both stacks are popped, whether the
\* body returned or threw.
procedureFinallyOnReturnOnly(scps, ctxs, thrown) ==
    IF thrown THEN [scopes |-> scps, contexts |-> ctxs]
    ELSE [scopes |-> Pop(scps), contexts |-> Pop(ctxs)]

\* The finally block of a procedure: scope and context are popped.
procedureFinally(scps, ctxs, thrown) == [scopes |-> Pop(scps), contexts |-> Pop(ctxs)]

ProcedureReturn ==
    /\ At("procedure", "finally")
    /\ scopes' = procedureFinally(scopes, contexts, FALSE).scopes
    /\ bindings' = Collect(scopes', bindings)
    /\ contexts' = procedureFinally(scopes, contexts, FALSE).contexts
    /\ stack' = Return(stack, contexts[Len(contexts)].output)
    /\ UNCHANGED << ctl, procedureScope, hooks, lib, program, err, timer, hist, observed >>
    /\ Step

(***************************************************************************)
(* builtins.apply and Interpreter.runTemplate.                             *)
(***************************************************************************)
\* The finally block of runTemplate: the scope is popped.
runTemplateFinally(scps, thrown) == Pop(scps)

InvokeApply ==
    /\ Invoking({"apply"})
    /\ LET template == Arg(1)
           inputs == IF isList(Arg(2)) THEN Arg(2).l ELSE <<>>
           names == [i \in 1..Len(Head(template.l).l) |-> Head(template.l).l[i].a]
           n == Len(stack)
       IN IF isString(template)
          THEN IF template.a \notin DOMAIN procedureScope
               THEN err' = "ReferenceError" /\ UNCHANGED << stack, scopes, bindings >>
               ELSE /\ stack' = Append([stack EXCEPT ![n].pc = "onvalue"],
                                       NewPerformCall(procedureScope[template.a], inputs))
                    /\ UNCHANGED << err, scopes, bindings >>
          ELSE IF ~isList(template)
          THEN err' = "TypeError" /\ UNCHANGED << stack, scopes, bindings >>
          ELSE IF template.l = <<>>
          THEN Returned(Undef) /\ UNCHANGED << err, scopes, bindings >>
          ELSE IF ~isList(Head(template.l))
          THEN err' = "TypeError" /\ UNCHANGED << stack, scopes, bindings >>
          ELSE IF Len(names) > Len(inputs) + 1
          THEN err' = "ReferenceError" /\ UNCHANGED << stack, scopes, bindings >>
          ELSE /\ scopes' = BindArgs(Append(scopes, EmptyScope), bindings, names,
                                     inputs, 1).scopes
               /\ bindings' = BindArgs(Append(scopes, EmptyScope), bindings, names,
                                       inputs, 1).bindings
               /\ stack' = [stack EXCEPT ![n].pc = "onvalue"]
                           \o << [F0 EXCEPT !.k = "runTemplate", !.pc = "finally"],
                                 NewEvaluate(Tail(template.l), scopes', contexts) >>
               /\ UNCHANGED err
    /\ Log("", TRUE)
    /\ UNCHANGED << ctl, contexts, procedureScope, hooks, lib, program, timer, result >>
    /\ Step

RunTemplateReturn ==
    /\ At("runTemplate", "finally")
    /\ scopes' = runTemplateFinally(scopes, FALSE)
    /\ bindings' = Collect(scopes', bindings)
    /\ stack' = Return(stack, Top.acc)
    /\ UNCHANGED << ctl, contexts, procedureScope, hooks, lib, program, err, timer, hist,
                    observed >>
    /\ Step

(***************************************************************************)
(* doMap, the loop of builtins.foreach and builtins.map.  Its frame keeps  *)
(* what each iterator has left in args, the template in val and the values *)
(* pushed onto the builder of map in iter.                                 *)
(***************************************************************************)
\* Interpreter.runTemplate(template, args) called by the frame on top of s:
\* the call it awaits is pushed onto s; a template that returns at once
\* leaves s as it is.
runTemplate(template, inputs, s, scps, cells, ctxs, procs) ==
    LET names == [i \in 1..Len(Head(template.l).l) |-> Head(template.l).l[i].a]
        bound == BindArgs(Append(scps, EmptyScope), cells, names, inputs, 1)
        thrown(e) == [err |-> e, stack |-> s, scopes |-> scps, bindings |-> cells]
    IN IF isString(template)
       THEN IF template.a \notin DOMAIN procs
            THEN thrown("ReferenceError")
            ELSE [err |-> "none", scopes |-> scps, bindings |-> cells,
                  stack |-> Append(s, NewPerformCall(procs[template.a], inputs))]
       ELSE IF ~isList(template) THEN thrown("TypeError")
       ELSE IF template.l = <<>> THEN thrown("none")
       ELSE IF ~isList(Head(template.l)) THEN thrown("TypeError")
       ELSE IF Len(names) > Len(inputs) + 1 THEN thrown("ReferenceError")
       ELSE [err |-> "none", scopes |-> bound.scopes, bindings |-> bound.bindings,
             stack |-> s \o << [F0 EXCEPT !.k = "runTemplate", !.pc = "finally"],
                               NewEvaluate(Tail(template.l), bound.scopes, ctxs) >>]

\* allDone of doMap: every iterator is exhausted.
allDone(sources) == \A i \in DOMAIN sources : sources[i].l = <<>>

\* anyDone of doMap: some iterator is exhausted.
anyDone(sources) == \E i \in DOMAIN sources : sources[i].l = <<>>

\* builtins.foreach and builtins.map up to the loop of doMap: the last
\* argument is the template, the ones before it are the sources.  The data
\* of the programs are lists; a number or a boolean has no iterator.
InvokeMap ==
    /\ Invoking({"foreach", "map"})
    /\ LET n == Len(Top.args)
           sources == SubSeq(Top.args, 1, n - 1)
       IN IF \E i \in DOMAIN sources : ~isList(sources[i])
          THEN err' = "TypeError" /\ UNCHANGED stack
          ELSE /\ stack' = Append([stack EXCEPT ![Len(stack)].pc = "onvalue"],
                                  [F0 EXCEPT !.k = "doMap", !.pc = "loop", !.func = Top.func,
                                             !.args = sources, !.val = Top.args[n]])
               /\ UNCHANGED err
    /\ Log("", TRUE)
    /\ UNCHANGED << ctl, mem, hooks, lib, program, timer, result >>
    /\ Step

\* One round of the loop of doMap: the callback for the value the template
\* returned, then the next value of every iterator and the next call of the
\* template, or the end of the loop.
DoMap ==
    /\ Running /\ Top.k = "doMap"
    /\ LET f == Top
           n == Len(stack)
           pushed == f.pc = "ret" /\ f.func.name = "map"
           results == IF pushed THEN Append(f.iter, f.acc) ELSE f.iter
           inputs == [i \in DOMAIN f.args |-> IterHead(f.args[i].l)]
           rest == [i \in DOMAIN f.args |-> L(IterTail(f.args[i].l))]
           r == runTemplate(f.val, inputs,
                            [stack EXCEPT ![n].pc = "ret", ![n].iter = results,
                                          ![n].args = rest, ![n].acc = Undef],
                            scopes, bindings, contexts, procedureScope)
       IN IF pushed /\ f.acc = Undef
          THEN err' = "TypeError" /\ UNCHANGED << stack, scopes, bindings >>
          ELSE IF anyDone(f.args)
          THEN /\ stack' = Return(stack, IF f.func.name = "map" THEN L(results) ELSE Undef)
               /\ UNCHANGED << err, scopes, bindings >>
          ELSE /\ err' = r.err
               /\ stack' = r.stack
               /\ scopes' = r.scopes
               /\ bindings' = r.bindings
    /\ UNCHANGED << ctl, contexts, procedureScope, hooks, lib, program, timer, hist,
                    observed >>
    /\ Step

(***************************************************************************)
(* The host's calls.  The steps of the evaluator other than checkBreak,    *)
(* the start of wait and the finally of execute neither read nor write     *)
(* running, breakFlag, paused, onbreak and oncontinue, so a call of the    *)
(* control surface made between two of those steps has the effect of the   *)
(* same call made right before the next of them.  The host's calls are     *)
(* therefore placed where that effect can differ: while no program runs,   *)
(* before a checkBreak, while a checkBreak is parked, between a checkBreak *)
(* and the function it guards (while oncall is awaited), while a wait is   *)
(* in flight, and before execute's finally.                                *)
(***************************************************************************)
HostTurn ==
    IF stack = <<>> THEN TRUE
    ELSE IF Top.k = "execute" THEN TRUE
    ELSE IF err # "none" THEN FALSE
    ELSE IF Top.k = "wait" THEN TRUE
    ELSE Top.k = "performCall" /\ Top.pc \in {"check", "parked", "invoke"}

(***************************************************************************)
(* Interpreter.execute.                                                    *)
(***************************************************************************)
NoBreak == [at |-> "none", paused |-> FALSE, observed |-> FALSE, invoked |-> FALSE]

\* A guard of execute that lets a second program start.
neverRunning(r) == FALSE

\* execute refuses to start while a program is active.
alreadyRunning(r) == r

Execute(source, table) ==
    /\ HostTurn
    /\ IF alreadyRunning(running)
       THEN /\ api' = [op |-> "execute", err |-> "already running"]
            /\ UNCHANGED << running, program, stack, err, result, calls, observed, brk >>
       ELSE LET parsed == table[source]
            IN /\ api' = [op |-> "execute", err |-> parsed.err]
               /\ program' = source
               /\ running' = (parsed.err = "none")
               /\ stack' = IF parsed.err = "none"
                           THEN << [F0 EXCEPT !.k = "execute", !.pc = "await"],
                                   NewEvaluate(parsed.out, scopes, contexts) >>
                           ELSE <<>>
               /\ err' = "none"
               /\ result' = IF parsed.err = "none" THEN "none" ELSE parsed.err
               /\ calls' = <<>>
               /\ observed' = <<>>
               /\ brk' = NoBreak
    /\ UNCHANGED << breakFlag, paused, onbreak, oncontinue, mem, hooks, lib, timer >>

\* The finally block of execute.
ExecuteFinally(outcome) ==
    /\ breakFlag' = FALSE
    /\ running' = FALSE
    /\ stack' = <<>>
    /\ err' = "none"
    /\ result' = outcome
    /\ UNCHANGED << paused, onbreak, oncontinue >>

\* evaluate has returned to execute.
ExecuteReturn ==
    /\ At("execute", "await")
    /\ IF Top.acc # Undef
       THEN /\ err' = "SyntaxError"
            /\ UNCHANGED << ctl, stack, result >>
       ELSE ExecuteFinally("ok")
    /\ UNCHANGED << mem, hooks, lib, program, timer, calls, observed, brk >>
    /\ Step

\* An unwinding in which a failed execute takes its definitions back.
UnwindForgetting ==
    /\ stack # <<>>
    /\ err # "none"
    /\ IF Top.k = "execute"
       THEN ExecuteFinally(err)
       ELSE stack' = Pop(stack) /\ UNCHANGED << ctl, err, result >>
    /\ scopes' = CASE Top.k = "procedure" -> procedureFinally(scopes, contexts, TRUE).scopes
                   [] Top.k = "runTemplate" -> runTemplateFinally(scopes, TRUE)
                   [] Top.k = "execute" -> << EmptyScope >>
                   [] OTHER -> scopes
    /\ bindings' = Collect(scopes', bindings)
    /\ contexts' = IF Top.k = "procedure"
                   THEN procedureFinally(scopes, contexts, TRUE).contexts
                   ELSE contexts
    /\ procedureScope' = IF Top.k = "execute" THEN builtins ELSE procedureScope
    /\ UNCHANGED << hooks, lib, program, timer, calls, observed, brk >>
    /\ Step

\* An error propagates one frame outwards, running the frame's finally.
Unwind ==
    /\ stack # <<>>
    /\ err # "none"
    /\ IF Top.k = "execute"
       THEN ExecuteFinally(err)
       ELSE stack' = Pop(stack) /\ UNCHANGED << ctl, err, result >>
    /\ scopes' = CASE Top.k = "procedure" -> procedureFinally(scopes, contexts, TRUE).scopes
                   [] Top.k = "runTemplate" -> runTemplateFinally(scopes, TRUE)
                   [] OTHER -> scopes
    /\ bindings' = Collect(scopes', bindings)
    /\ contexts' = IF Top.k = "procedure"
                   THEN procedureFinally(scopes, contexts, TRUE).contexts
                   ELSE contexts
    /\ UNCHANGED << procedureScope, hooks, lib, program, timer, calls, observed, brk >>
    /\ Step

(***************************************************************************)
(* The control surface: pause, continue, break.                            *)
(***************************************************************************)
\* A resolver that resumes the parked performCall past its function.
CallOncontinueSkipping(oc, s, e) ==
    IF oc = "null" THEN [err |-> "TypeError", stack |-> s]
    ELSE [err |-> "none",
          stack |-> IF Parked(s, e) THEN [s EXCEPT ![Len(s)].pc = "onvalue"] ELSE s]

\* this.oncontinue() as called by continue(): the resolver of the parked
\* checkBreak resumes the computation; calling null is a TypeError.
CallOncontinue(oc, s, e) ==
    IF oc = "null" THEN [err |-> "TypeError", stack |-> s]
    ELSE [err |-> "none",
          stack |-> IF Parked(s, e) THEN [s EXCEPT ![Len(s)].pc = "oncall"] ELSE s]

\* this.onbreak(reason) as called by break(): the rejecter installed by
\* wait clears its timeout and rejects the wait; the one installed by a
\* parked checkBreak drops oncontinue and rejects the check.  Rejecting a
\* promise already settled does nothing.
CallOnbreak(ob, oc, s, e, t) ==
    LET waiting == s # <<>> /\ e = "none" /\ s[Len(s)].k = "wait"
    IN CASE ob = "wait" ->
              [oncontinue |-> oc,
               timer |-> IF waiting THEN "none" ELSE t,
               err |-> IF waiting THEN "Break requested" ELSE e]
         [] ob = "check" ->
              [oncontinue |-> "null",
               timer |-> t,
               err |-> IF Parked(s, e) THEN "Break requested" ELSE e]
         [] OTHER -> [oncontinue |-> oc, timer |-> t, err |-> e]

\* A pause that also runs the pending onbreak callback.
PauseInterrupting ==
    /\ HostTurn
    /\ api' = [op |-> "pause",
               err |-> IF ~running THEN "Cannot pause when not running"
                       ELSE IF paused THEN "Already paused" ELSE "none"]
    /\ paused' = (paused \/ running)
    /\ timer' = CallOnbreak(onbreak, oncontinue, stack, err, timer).timer
    /\ err' = CallOnbreak(onbreak, oncontinue, stack, err, timer).err
    /\ UNCHANGED << running, breakFlag, onbreak, oncontinue, mem, hooks, lib, program, stack,
                    result, calls, observed, brk >>

\* Interpreter.pause.
Pause ==
    /\ HostTurn
    /\ api' = [op |-> "pause",
               err |-> IF ~running THEN "Cannot pause when not running"
                       ELSE IF paused THEN "Already paused" ELSE "none"]
    /\ paused' = (paused \/ running)
    /\ UNCHANGED << running, breakFlag, onbreak, oncontinue, mem, hooks, lib, program, stack, err,
                    timer, result, calls, observed, brk >>

Continue ==
    /\ HostTurn
    /\ IF ~running
       THEN /\ api' = [op |-> "continue", err |-> "Cannot continue when not running"]
            /\ UNCHANGED << paused, stack >>
       ELSE IF ~paused
       THEN /\ api' = [op |-> "continue", err |-> "Cannot continue when not paused"]
            /\ UNCHANGED << paused, stack >>
       ELSE /\ paused' = FALSE
            /\ api' = [op |-> "continue", err |-> CallOncontinue(oncontinue, stack, err).err]
            /\ stack' = CallOncontinue(oncontinue, stack, err).stack
    /\ UNCHANGED << running, breakFlag, onbreak, oncontinue, mem, hooks, lib, program, err, timer,
                    result, calls, observed, brk >>

Break ==
    /\ HostTurn
    /\ LET b == CallOnbreak(onbreak, oncontinue, stack, err, timer)
           c == CallOncontinue(b.oncontinue, stack, b.err)
       IN IF ~running
          THEN /\ api' = [op |-> "break", err |-> "Cannot break when not running"]
               /\ UNCHANGED << breakFlag, paused, oncontinue, stack, err, timer, brk >>
          ELSE IF breakFlag
          THEN /\ api' = [op |-> "break", err |-> "Already breaking"]
               /\ UNCHANGED << breakFlag, paused, oncontinue, stack, err, timer, brk >>
          ELSE /\ breakFlag' = TRUE
               /\ oncontinue' = b.oncontinue
               /\ timer' = b.timer
               /\ err' = b.err
               /\ paused' = FALSE
               /\ stack' = IF paused THEN c.stack ELSE stack
               /\ api' = [op |-> "break", err |-> IF paused THEN c.err ELSE "none"]
               /\ brk' = [at |-> IF Parked(stack, err) THEN "parked"
                                 ELSE IF Running /\ Top.k = "wait" THEN "wait"
                                 ELSE "run",
                          paused |-> paused, observed |-> FALSE, invoked |-> FALSE]
    /\ UNCHANGED << running, onbreak, mem, hooks, lib, program, result, calls, observed >>

(***************************************************************************)
(* The calls a user of List and ListBuilder makes.  `api` records the call *)
(* and the error it raised.                                                *)
(***************************************************************************)
\* Whether the heap has room for n more records.
Room(n) == Cardinality(DOMAIN lists) + n <= MaxCells + 1

\* The iterables handed to concat.
Iterables == {<<>>} \cup {<< a >> : a \in Items \cup {Undef}}
             \cup {<< a, b >> : a \in Items, b \in Items \cup {Undef}}

\* The interpreter takes no part in a call of the list library.
ListCall(op, e) ==
    /\ api' = [op |-> op, err |-> e]
    /\ UNCHANGED << ctl, mem, hooks, program, stack, err, timer, hist, observed >>

ListConstructor ==
    \E head \in Items \cup {Undef}, tail \in DOMAIN lists :
        LET r == NewList(lists, head, tail)
        IN /\ Room(1)
           /\ lists' = r.lists
           /\ UNCHANGED builder
           /\ ListCall("List", r.err)

ListBuilderConstructor ==
    /\ builder' = NewListBuilder
    /\ UNCHANGED lists
    /\ ListCall("ListBuilder", "none")

ListBuilderPush ==
    \E val \in Items \cup {Undef} :
        LET r == push(lists, builder, val)
        IN /\ Room(1)
           /\ lists' = r.lists
           /\ builder' = r.builder
           /\ ListCall("push", r.err)

ListBuilderConcat ==
    \E iterable \in Iterables :
        LET r == concat(lists, builder, iterable)
        IN /\ Room(Len(iterable))
           /\ lists' = r.lists
           /\ builder' = r.builder
           /\ ListCall("concat", r.err)

\* attach(list) returns when list.end() does: the list handed over does not
\* lead back to the record it is spliced onto.
ListBuilderAttach ==
    \E list \in DOMAIN lists :
        LET r == attach(lists, builder, list)
        IN /\ isEmpty(lists, builder.list) \/ ~Reaches(lists, list, builder.end)
           /\ lists' = r.lists
           /\ builder' = r.builder
           /\ ListCall("attach", r.err)

(***************************************************************************)
(* The interpreter after construction, and its steps.                      *)
(***************************************************************************)
Init ==
    /\ running = FALSE
    /\ breakFlag = FALSE
    /\ paused = FALSE
    /\ onbreak = "null"
    /\ oncontinue = "null"
    /\ scopes = << EmptyScope >>
    /\ bindings = NoBindings
    /\ contexts = << Context >>
    /\ procedureScope = builtins
    /\ hooks \in BOOLEAN
    /\ program = <<>>
    /\ lists = NoLists
    /\ builder = NewListBuilder
    /\ stack = <<>>
    /\ err = "none"
    /\ timer = "none"
    /\ result = "none"
    /\ api = NoCall
    /\ calls = <<>>
    /\ observed = <<>>
    /\ brk = NoBreak

Next ==
    \/ \E source \in Programs : Execute(source, ParsedPrograms)
    \/ Pause
    \/ Continue
    \/ Break
    \/ TimerFire
    \/ Evaluate
    \/ HandleArg
    \/ HandleFixed
    \/ HandleVariadic
    \/ HandleOperator
    \/ CheckBreak
    \/ Oncall
    \/ Onvalue
    \/ InvokeValue
    \/ InvokePrint
    \/ InvokeStop
    \/ InvokeOutput
    \/ InvokeWait
    \/ InvokeRun
    \/ InvokeRepeat
    \/ Repeat
    \/ InvokeProcedure
    \/ ProcedureReturn
    \/ InvokeApply
    \/ RunTemplateReturn
    \/ ExecuteReturn
    \/ Unwind

Spec == Init /\ [][Next]_vars

\* The interpreter running one program after the other, the host making no
\* call of pause, continue or break.
SeqNext ==
    \/ \E source \in SeqPrograms : Execute(source, ParsedSeq)
    \/ Evaluate
    \/ HandleArg
    \/ HandleFixed
    \/ HandleOperator
    \/ CheckBreak
    \/ Oncall
    \/ Onvalue
    \/ InvokeValue
    \/ InvokePrint
    \/ InvokeStop
    \/ InvokeOutput
    \/ InvokeMake
    \/ InvokeLocal
    \/ InvokeGlobal
    \/ InvokeProcedure
    \/ ProcedureReturn
    \/ ExecuteReturn
    \/ Unwind

SpecSeq == Init /\ [][SeqNext]_vars

\* The interpreter printing infix expressions.
ExprNext ==
    \/ \E source \in ExprPrograms : Execute(source, ParsedExpr)
    \/ Evaluate
    \/ HandleArg
    \/ HandleFixed
    \/ HandleOperator
    \/ CheckBreak
    \/ Oncall
    \/ Onvalue
    \/ InvokeValue
    \/ InvokePrint
    \/ ExecuteReturn
    \/ Unwind

SpecExpr == Init /\ [][ExprNext]_vars

\* The interpreter handed short source texts.
ParseNext ==
    \/ \E source \in ParseSources : Execute(source, ParsedSources)
    \/ Evaluate
    \/ HandleArg
    \/ HandleFixed
    \/ HandleOperator
    \/ CheckBreak
    \/ Oncall
    \/ Onvalue
    \/ InvokeValue
    \/ InvokePrint
    \/ ExecuteReturn
    \/ Unwind

SpecParse == Init /\ [][ParseNext]_vars

\* The interpreter handed numbers, words, "=" and "<".
TokenNext ==
    \/ \E source \in TokenSources : Execute(source, ParsedToken)
    \/ Evaluate
    \/ HandleArg
    \/ HandleFixed
    \/ HandleOperator
    \/ CheckBreak
    \/ Oncall
    \/ Onvalue
    \/ InvokeValue
    \/ InvokePrint
    \/ ExecuteReturn
    \/ Unwind

SpecToken == Init /\ [][TokenNext]_vars

\* The interpreter handed brackets, backslashes and words.
StrayNext ==
    \/ \E source \in StraySources : Execute(source, ParsedStray)
    \/ Evaluate
    \/ HandleArg
    \/ ExecuteReturn
    \/ Unwind

SpecStray == Init /\ [][StrayNext]_vars

\* The interpreter iterating templates over lists.
MapNext ==
    \/ \E source \in MapPrograms : Execute(source, ParsedMap)
    \/ Evaluate
    \/ HandleArg
    \/ HandleFixed
    \/ HandleVariadic
    \/ CheckBreak
    \/ Oncall
    \/ Onvalue
    \/ InvokeValue
    \/ InvokePrint
    \/ InvokeMap
    \/ DoMap
    \/ RunTemplateReturn
    \/ ExecuteReturn
    \/ Unwind

SpecMap == Init /\ [][MapNext]_vars

\* The interpreter handed programs of a few words.
ArityNext ==
    \/ \E source \in ArityPrograms \cup {ArityFull} : Execute(source, ParsedArity)
    \/ Evaluate
    \/ HandleArg
    \/ HandleFixed
    \/ CheckBreak
    \/ Oncall
    \/ Onvalue
    \/ InvokeValue
    \/ InvokePrint
    \/ ExecuteReturn
    \/ Unwind

SpecArity == Init /\ [][ArityNext]_vars

\* The interpreter running the looping programs under the host's calls.
LoopStep ==
    \/ Evaluate
    \/ HandleArg
    \/ HandleFixed
    \/ CheckBreak
    \/ Oncall
    \/ Onvalue
    \/ InvokePrint
    \/ InvokeStop
    \/ InvokeRepeat
    \/ Repeat
    \/ InvokeForever
    \/ Forever
    \/ ExecuteReturn
    \/ Unwind

LoopNext ==
    \/ \E source \in LoopPrograms : Execute(source, ParsedLoop)
    \/ Pause
    \/ Continue
    \/ Break
    \/ LoopStep

\* The event loop runs every continuation that is ready: a step of the
\* interpreter that stays possible is eventually taken.
SpecLoop == Init /\ [][LoopNext]_vars /\ WF_vars(LoopStep)

\* A user of List and ListBuilder.
ListNext ==
    \/ ListConstructor
    \/ ListBuilderConstructor
    \/ ListBuilderPush
    \/ ListBuilderConcat
    \/ ListBuilderAttach

SpecList == Init /\ [][ListNext]_vars

(***************************************************************************)
(* Properties.                                                             *)
(***************************************************************************)
\* The names of the functions invoked so far by the current execute.
CallNames == [i \in 1..Len(calls) |-> calls[i].f]

LastCall == IF calls = <<>> THEN "" ELSE calls[Len(calls)].f

\* No program is active: the last execute has returned or failed.
Settled == stack = <<>> /\ result # "none"

\* C1: whenever an execute that got past parsing has returned or failed,
\* running and breakFlag are false and neither onbreak nor oncontinue is
\* pending.
C1_ExecuteClearsControlState ==
    Settled => ~running /\ ~breakFlag /\ onbreak = "null" /\ oncontinue = "null"

\* C2: an execute called while a program is active fails with "already
\* running" and changes nothing of the interpreter or of the active program.
C2_ReentryRejected ==
    [][(running /\ api'.op = "execute") =>
          /\ api'.err = "already running"
          /\ UNCHANGED << running, breakFlag, paused, onbreak, oncontinue, scopes,
                          bindings, contexts, procedureScope, program, stack, err, timer,
                          result, calls, observed >>]_vars

C2_Witness ==
    /\ api = [op |-> "execute", err |-> "already running"]
    /\ running
    /\ calls # <<>>
    /\ Len(stack) > 2

\* C3: once break() has been accepted, the next checkBreak fails the
\* computation with "Break requested": the call it guards is not made, no
\* function and no observer runs from then on, and execute fails with that
\* error.
C3_BreakFailsNextCheck ==
    [][/\ (running /\ ~paused /\ ~breakFlag /\ api'.op = "break") =>
              api'.err = "none" /\ breakFlag'
       /\ (breakFlag /\ running') => breakFlag'
       /\ (breakFlag /\ At("performCall", "check") /\ api' = NoCall) =>
              err' = "Break requested" /\ stack' = stack
       /\ err = "Break requested" =>
              /\ calls' = calls
              /\ observed' = observed
              /\ \/ err' = "Break requested" /\ running'
                 \/ result' = "Break requested" /\ ~running' /\ stack' = <<>>]_vars

C3_Witness ==
    /\ Settled
    /\ result = "Break requested"
    /\ brk.at = "run"
    /\ ~brk.paused
    /\ calls # <<>>

\* C4: break() called while the interpreter is paused raises no error and
\* lifts the pause, and the execute it interrupts fails with "Break
\* requested".
C4_BreakWhilePaused ==
    [][/\ (running /\ paused /\ ~breakFlag /\ api'.op = "break") =>
              api'.err = "none" /\ ~paused'
       /\ (brk.at # "none" /\ brk.paused /\ running /\ ~running') =>
              result' = "Break requested"]_vars

\* C5: break() called while a wait is in flight cancels the timer and fails
\* the wait at once, no observer fires afterwards, and execute fails with
\* "Break requested".
C5_BreakInterruptsWait ==
    [][/\ (Running /\ Top.k = "wait" /\ api'.op = "break") =>
              timer' = "none" /\ err' = "Break requested"
       /\ brk.at = "wait" =>
              /\ observed' = observed
              /\ running /\ ~running' => result' = "Break requested"]_vars

\* The calls each program makes when it runs undisturbed, in order.
ExpectedCalls ==
    { << "print", "wait", "+", "*", "print" >>,
      << "f", "repeat", "print", "stop", "print" >>,
      << "g", "run", "output" >>,
      << "sq", ">", "if", "*", "output", "print" >>,
      << "h", "apply", "print", "stop", "print" >>,
      << "w", "wait" >>,
      << "repeat" >> \o [i \in 1..RepeatCount |-> "print"] \o << "true", "if", "stop" >>,
      << "apply", "output" >> }

IsPrefix(s, t) == Len(s) <= Len(t) /\ s = SubSeq(t, 1, Len(s))

\* C6: with pause() requested, the next checkBreak parks the computation;
\* while it is parked nothing is invoked and nothing is observed until
\* continue() or break(); continue() lets exactly the parked call proceed;
\* and a run that was never broken makes every call of its program once, in
\* the program's order.
C6_PauseParksAndContinueResumes ==
    [][/\ (paused /\ ~breakFlag /\ At("performCall", "check") /\ api' = NoCall) =>
              /\ Parked(stack', err')
              /\ calls' = calls /\ observed' = observed
       /\ (Parked(stack, err) /\ api'.op \notin {"continue", "break"}) =>
              stack' = stack /\ calls' = calls /\ observed' = observed /\ err' = err
       /\ (Parked(stack, err) /\ api'.op = "continue") =>
              /\ api'.err = "none" /\ ~paused'
              /\ stack' = [stack EXCEPT ![Len(stack)].pc = "oncall"]
              /\ calls' = calls
       /\ \E e \in ExpectedCalls : IsPrefix(CallNames', e)
       /\ (Settled' /\ brk'.at = "none") => CallNames' \in ExpectedCalls]_vars

C6_Witness ==
    /\ At("performCall", "oncall")
    /\ api = [op |-> "continue", err |-> "none"]
    /\ ~paused
    /\ CallNames = << "h", "apply", "print" >>

\* C7: pause() during a wait leaves the wait alone: its timer stays armed
\* and its onbreak callback is not run; the wait then completes normally
\* when the timer fires, and the call after it is the one that parks.
C7_PauseDoesNotInterruptWait ==
    [][/\ (Running /\ Top.k = "wait" /\ api'.op = "pause") =>
              /\ timer' = timer /\ onbreak' = onbreak
              /\ stack' = stack /\ err' = err
       /\ (Running /\ Top.k = "wait" /\ paused /\ api' = NoCall) =>
              /\ timer = "armed" /\ timer' = "none"
              /\ err' = "none"
              /\ stack' = Return(stack, Undef)
              /\ ~Parked(stack', err')
       /\ (paused /\ ~breakFlag /\ LastCall = "wait" /\ At("performCall", "check")
             /\ api' = NoCall) =>
              Parked(stack', err')]_vars

C7_Witness ==
    /\ Running
    /\ Top.k = "wait"
    /\ timer = "armed"
    /\ api = [op |-> "pause", err |-> "none"]

Frames(kind) == Cardinality({i \in 1..Len(stack) : stack[i].k = kind})

\* C8: the scope stack holds the global scope plus one scope per procedure
\* and per template invocation in progress, the context stack holds the
\* global context plus one context per procedure invocation in progress,
\* and once execute has returned or failed both stacks are back to the
\* global scope and the global context alone.
C8_StacksRestored ==
    /\ Len(scopes) = 1 + Frames("procedure") + Frames("runTemplate")
    /\ Len(contexts) = 1 + Frames("procedure")
    /\ stack = <<>> => scopes = << EmptyScope >> /\ contexts = << Context >>

C8_Witness ==
    /\ Settled
    /\ result = "Break requested"
    /\ brk.at = "wait"
    /\ CallNames = << "w", "wait" >>

\* C9: stop and output invoked while the current context is the global one
\* fail with a syntax error and leave it as it was; the global context never
\* has its stop flag set nor an output value.
C9_StopOutputAtTopLevel ==
    [][/\ (At("performCall", "invoke") /\ Top.func.kind = "builtin"
             /\ Top.func.name \in {"stop", "output"} /\ Len(contexts) = 1
             /\ api' = NoCall) =>
              err' = "SyntaxError" /\ contexts' = contexts
       /\ contexts[1] = Context
       /\ contexts'[1] = Context]_vars

C9_Witness ==
    /\ Settled
    /\ result = "SyntaxError"
    /\ CallNames = << "repeat", "print", "print", "true", "if", "stop" >>

\* C10: once stop or output has set the stop flag of a procedure
\* invocation's context, no further call is made under that context and no
\* error arises: the procedure returns to its caller, which continues.
C10_StopReturnsFromProcedure ==
    [][(Len(contexts) > 1 /\ contexts[Len(contexts)].stop) =>
          calls' = calls /\ err' = "none"]_vars

(***************************************************************************)
(* Properties of programs run one after the other.                         *)
(***************************************************************************)
\* The entry of calls for the procedure invocation whose context is the
\* d-th of the stack: the last invocation of a user procedure made with
\* d - 1 contexts on the stack.
Invocation(d) ==
    LET made == {i \in 1..Len(calls) :
                    calls[i].depth = d - 1 /\ calls[i].f \notin DOMAIN builtins}
    IN CHOOSE i \in made : \A j \in made : j <= i

\* The value passed to the output executed under the d-th context, or
\* undefined if none was.
ValueOutput(d) ==
    LET outs == {j \in (Invocation(d) + 1)..Len(calls) :
                    calls[j].f = "output" /\ calls[j].depth = d}
    IN IF outs = {} THEN Undef
       ELSE calls[CHOOSE j \in outs : \A m \in outs : m <= j].args[1]

C12_DefinitionsPersist ==
    [][/\ DOMAIN procedureScope \subseteq DOMAIN procedureScope'
       /\ DOMAIN scopes[1] \subseteq DOMAIN scopes'[1]
       /\ (At("execute", "await") \/ stack = <<>> \/ stack' = <<>>) =>
              /\ procedureScope' = procedureScope
              /\ scopes'[1] = scopes[1]
              /\ \A name \in DOMAIN scopes[1] :
                     bindings'[scopes[1][name]] = bindings[scopes[1][name]]
       /\ (Settled' /\ program' = SeqFail) =>
              /\ result' = "SyntaxError"
              /\ "sq" \in DOMAIN procedureScope'
              /\ ScopeHas(scopes', 1, "y")
              /\ ScopeGet(scopes', bindings', 1, "y") = Num(5)
       /\ (Settled' /\ program' = SeqLater) =>
              result' = IF "sq" \notin DOMAIN procedureScope THEN "TypeError"
                        ELSE IF ~ScopeHas(scopes, 1, "y") THEN "ReferenceError"
                        ELSE "ok"
       /\ (Settled' /\ program' = SeqLater /\ result' = "ok") =>
              calls'[Len(calls')] = Call("print", << Num(5 * 5) >>, 1)]_vars

C12_Witness ==
    /\ Settled
    /\ program = SeqLater
    /\ result = "ok"
    /\ calls = << Call("sq", << Num(5) >>, 1), Call("*", << Num(5), Num(5) >>, 2),
                  Call("output", << Num(5 * 5) >>, 2), Call("print", << Num(5 * 5) >>, 1) >>

(***************************************************************************)
(* Properties of infix expressions.                                        *)
(***************************************************************************)
\* The value handed to the print that ended the program, if one did.
Printed ==
    IF calls # <<>> /\ calls[Len(calls)].f = "print" /\ Len(calls[Len(calls)].args) = 1
    THEN calls[Len(calls)].args[1]
    ELSE Undef

RECURSIVE LeftToRight(_, _)
\* The first n operands of e with the operators between them applied from
\* left to right.
LeftToRight(e, n) ==
    IF n = 1 THEN Num(e.operands[1])
    ELSE Arith(e.ops[n - 1], LeftToRight(e, n - 1), Num(e.operands[n]))

SamePriority(e) == \A i, j \in DOMAIN e.ops : precedence(e.ops[i]) = precedence(e.ops[j])

\* C13: a chain of operators of one priority is applied left to right:
\* `print a op1 b op2 c` prints (a op1 b) op2 c, and `print 10 - 4 - 3`
\* prints 3.
C13_SamePriorityLeftToRight ==
    /\ \A e \in Exprs :
           (Settled /\ program = ExprSource(e) /\ SamePriority(e)) =>
               result = "ok" /\ Printed = LeftToRight(e, Len(e.operands))
    /\ (Settled /\ program = ExprChain) =>
           result = "ok" /\ Printed = Num(3)

\* The applications of `a op1 b op2 c [op3 d]` when the operators of the
\* higher priority go first and the others follow in textual order.
PrecedenceOrder(e) ==
    LET a == Num(e.operands[1])
        b == Num(e.operands[2])
        c == Num(e.operands[3])
        high == Arith(e.ops[2], b, c)
        first == Arith(e.ops[1], a, b)
        low == Arith(e.ops[1], a, high)
    IN IF precedence(e.ops[2]) > precedence(e.ops[1])
       THEN << Call(e.ops[2], << b, c >>, 1), Call(e.ops[1], << a, high >>, 1) >>
            \o (IF Len(e.operands) = 3 THEN << Call("print", << low >>, 1) >>
                ELSE << Call(e.ops[3], << low, Num(e.operands[4]) >>, 1),
                        Call("print", << Arith(e.ops[3], low, Num(e.operands[4])) >>, 1) >>)
       ELSE << Call(e.ops[1], << a, b >>, 1), Call(e.ops[2], << first, c >>, 1),
               Call("print", << Arith(e.ops[2], first, c) >>, 1) >>

\* C14: where priorities are mixed, an operator of higher priority is
\* applied to its two neighbours before the operators of lower priority
\* next to it, and those are then applied to the accumulated left value in
\* textual order; `print 1 + 2 * 3 - 4` applies 2 * 3 = 6, 1 + 6 = 7,
\* 7 - 4 = 3 and prints 3.
C14_MixedPriorities ==
    /\ \A e \in Exprs :
           (Settled /\ program = ExprSource(e) /\ ~SamePriority(e)) =>
               result = "ok" /\ calls = PrecedenceOrder(e)
    /\ (Settled /\ program = ExprMixed) =>
           /\ result = "ok"
           /\ calls = << Call("*", << Num(2), Num(3) >>, 1), Call("+", << Num(1), Num(6) >>, 1),
                         Call("-", << Num(7), Num(4) >>, 1), Call("print", << Num(3) >>, 1) >>

(***************************************************************************)
(* Properties of the parser.                                               *)
(***************************************************************************)
\* The positions of source holding a minus sign that follows the start of
\* the input or a blank and is followed at once by a digit.
FoldedMinus(source) ==
    {i \in 1..Len(source) :
        /\ source[i] = "-"
        /\ i = 1 \/ source[i - 1] \in reWhitespace
        /\ i < Len(source) /\ source[i + 1] \in reDigit}

\* The positions of source holding any other minus sign.
OperatorMinus(source) == {i \in 1..Len(source) : source[i] = "-"} \ FoldedMinus(source)

\* execute has just parsed the source and started its evaluation.
Started == api = [op |-> "execute", err |-> "none"] /\ Len(stack) = 2

\* C15: a minus sign becomes part of a negative number literal exactly when
\* it follows the start of the input or a blank and is followed at once by a
\* digit, and is the operator token `-` anywhere else: the tokens hold one
\* negative literal per minus sign of the first kind and one `-` per minus
\* sign of the second.  `print -3 + 4` prints 1, `print 3-4` and
\* `print 3 - 4` subtract, and `print 3 -4` fails with a syntax error after
\* printing 3.
C15_MinusFolding ==
    /\ Started =>
           LET tokens == Top.iter
           IN /\ Cardinality({j \in 1..Len(tokens) : isNumber(tokens[j]) /\ tokens[j].n < 0})
                    = Cardinality(FoldedMinus(program))
              /\ Cardinality({j \in 1..Len(tokens) : tokens[j] = W("-")})
                    = Cardinality(OperatorMinus(program))
    /\ (Settled /\ program = ExprNegative) => result = "ok" /\ Printed = Num(1)
    /\ (Settled /\ program \in {ExprTight, ExprSpaced}) =>
           /\ result = "ok"
           /\ calls = << Call("-", << Num(3), Num(4) >>, 1), Call("print", << Num(0 - 1) >>, 1) >>
    /\ (Settled /\ program = ExprAdjacent) =>
           result = "SyntaxError" /\ calls = << Call("print", << Num(3) >>, 1) >>

(***************************************************************************)
(* Properties of the scopes.                                               *)
(***************************************************************************)
\* The step about to be taken is the call of the builtin `name` itself.
Calling(name) ==
    /\ At("performCall", "invoke")
    /\ Top.func.kind = "builtin"
    /\ Top.func.name = name
    /\ api' = NoCall

\* The variable the call about to be made is about.
Variable == Key(Arg(1))

\* The builtin `name` has just returned.
Called(name) ==
    /\ At("performCall", "onvalue")
    /\ Top.func.kind = "builtin"
    /\ Top.func.name = name
    /\ api = NoCall

\* C16: make on a name that is bound somewhere in the chain of the current
\* scope updates the cell found there: no scope gets a new binding, no cell
\* is created, no other cell changes, and the name read from the scope that
\* holds the binding or from any scope below it in the chain gives the new
\* value.
C16_SetUpdatesInPlace ==
    [][(Calling("make") /\ ScopeHas(scopes, Len(scopes), Variable)) =>
          /\ scopes' = scopes
          /\ DOMAIN bindings' = DOMAIN bindings
          /\ \A c \in DOMAIN bindings :
                 c # getBinding(scopes, Len(scopes), Variable) => bindings'[c] = bindings[c]
          /\ \A i \in Holder(scopes, Len(scopes), Variable)..Len(scopes) :
                 ScopeGet(scopes', bindings', i, Variable) = Arg(2)
          /\ err' = "none"]_vars

C16_Witness ==
    /\ program = SeqMid
    /\ Called("make")
    /\ Len(scopes) = 3
    /\ scopes[3] = EmptyScope
    /\ DOMAIN scopes[2] = {"x"}
    /\ scopes[1] = EmptyScope
    /\ ScopeGet(scopes, bindings, 3, "x") = Num(1)
    /\ ScopeGet(scopes, bindings, 2, "x") = Num(1)

\* C17: make on a name bound nowhere in the chain binds it in the global
\* scope and nowhere else: the global scope gets the name with the value,
\* every other scope and every other global name stay as they are, and
\* after `deep 0` (make "x 1 two procedures down) x is still bound to 1 in
\* the global scope when execute has returned.
C17_SetCreatesGlobal ==
    [][/\ (Calling("make") /\ ~ScopeHas(scopes, Len(scopes), Variable)) =>
              /\ Len(scopes') = Len(scopes)
              /\ \A i \in 2..Len(scopes) : scopes'[i] = scopes[i]
              /\ DOMAIN scopes'[1] = DOMAIN scopes[1] \cup {Variable}
              /\ \A name \in DOMAIN scopes[1] :
                     /\ scopes'[1][name] = scopes[1][name]
                     /\ bindings'[scopes[1][name]] = bindings[scopes[1][name]]
              /\ ScopeGet(scopes', bindings', 1, Variable) = Arg(2)
              /\ err' = "none"
       /\ (Settled' /\ program' = SeqDeep) =>
              /\ result' = "ok"
              /\ scopes' = << [name \in DOMAIN scopes[1] \cup {"x"} |-> scopes'[1][name]] >>
              /\ ScopeGet(scopes', bindings', 1, "x") = Num(1)
              /\ calls'[Len(calls')] = Call("print", << Num(1) >>, 1)]_vars

C17_Witness ==
    /\ program = SeqDeep
    /\ Called("make")
    /\ Len(scopes) = 3
    /\ scopes[3] = EmptyScope
    /\ DOMAIN scopes[2] = {"a"}
    /\ DOMAIN scopes[1] = {"x"}
    /\ ScopeGet(scopes, bindings, 3, "x") = Num(1)

\* C18: global "x makes x of the current scope the very cell x has in the
\* global scope, created empty there if there was none, whatever x was bound
\* to in the current or an intermediate scope; a make "x v that finds this
\* alias changes the global value; and the programs that read x through the
\* alias and in the global scope print the same value both times.
C18_GlobalAliasesRootCell ==
    [][/\ Calling("global") =>
              /\ Len(scopes') = Len(scopes)
              /\ Variable \in DOMAIN scopes'[1]
              /\ Variable \in DOMAIN scopes'[Len(scopes)]
              /\ scopes'[Len(scopes)][Variable] = scopes'[1][Variable]
              /\ IF Variable \in DOMAIN scopes[1]
                 THEN /\ scopes'[1] = scopes[1]
                      /\ ScopeGet(scopes', bindings', 1, Variable)
                            = ScopeGet(scopes, bindings, 1, Variable)
                 ELSE ScopeGet(scopes', bindings', 1, Variable) = Undef
              /\ \A i \in 2..(Len(scopes) - 1) : scopes'[i] = scopes[i]
              /\ err' = "none"
       /\ (Calling("make") /\ Len(scopes) > 1
             /\ Variable \in DOMAIN scopes[Len(scopes)] \cap DOMAIN scopes[1]
             /\ scopes[Len(scopes)][Variable] = scopes[1][Variable]) =>
              /\ ScopeGet(scopes', bindings', 1, Variable) = Arg(2)
              /\ ScopeGet(scopes', bindings', Len(scopes), Variable) = Arg(2)
       /\ (Settled' /\ program' \in {SeqGlobal, SeqLocal, SeqShadow, SeqAlias}) =>
              /\ result' = "ok"
              /\ calls'[Len(calls')].f = "print"
              /\ calls'[Len(calls')].args = << ScopeGet(scopes', bindings', 1, "x") >>
              /\ program' # SeqShadow => calls'[Len(calls') - 1] =
                                             [calls'[Len(calls')] EXCEPT !.depth = 2]
              /\ program' = SeqShadow => calls'[Len(calls') - 1] =
                                             Call("print", << Num(5) >>, 2)]_vars

C18_Witness ==
    /\ program = SeqShadow
    /\ Called("make")
    /\ Len(scopes) = 3
    /\ scopes[3]["x"] = scopes[1]["x"]
    /\ scopes[2]["x"] # scopes[1]["x"]
    /\ ScopeGet(scopes, bindings, 1, "x") = Num(6)
    /\ ScopeGet(scopes, bindings, 2, "x") = Num(5)
    /\ ScopeGet(scopes, bindings, 3, "x") = Num(6)

(***************************************************************************)
(* Properties of the order of evaluation.                                  *)
(***************************************************************************)
\* The calls of `make "x 1 print sum bump sq :x print :x` in textual order:
\* the statements one after the other, in each call the arguments from left
\* to right (bump doubles x before :x is read for sq), the function after
\* its arguments.
OrderExpected ==
    << Call("make", << W("x"), Num(1) >>, 1),
       Call("bump", <<>>, 1),
       Call("*", << Num(1), Num(2) >>, 2),
       Call("make", << W("x"), Num(2) >>, 2),
       Call("output", << Num(2) >>, 2),
       Call("sq", << Num(2) >>, 1),
       Call("*", << Num(2), Num(2) >>, 2),
       Call("output", << Num(4) >>, 2),
       Call("sum", << Num(2), Num(4) >>, 1),
       Call("print", << Num(6) >>, 1),
       Call("print", << Num(2) >>, 1) >>

\* C19: evaluation follows the text: a function called in the fixed form is
\* invoked with all the arguments it declares, each one evaluated; while an
\* argument is being evaluated the function still lacks arguments; and the
\* calls of SeqOrder happen in textual order, statement after statement,
\* argument after argument, the function after its arguments.
C19_TextualOrder ==
    /\ \A i \in 2..Len(stack) :
           (stack[i].k = "performCall" /\ stack[i - 1].k = "handleFixed") =>
               /\ Len(stack[i].args) = stack[i].func.length
               /\ \A j \in 1..Len(stack[i].args) : stack[i].args[j] # Undef
    /\ \A i \in 1..Len(stack) :
           (stack[i].k = "handleFixed" /\ stack[i].pc = "arg") =>
               Len(stack[i].args) < stack[i].func.length
    /\ program = SeqOrder => IsPrefix(calls, OrderExpected)
    /\ (Settled /\ program = SeqOrder) => result = "ok" /\ calls = OrderExpected

C19_Witness ==
    /\ Settled
    /\ program = SeqOrder
    /\ result = "ok"
    /\ calls = OrderExpected

\* The number of times the observer has fired in the current execute.
Fired(observer) == Cardinality({i \in 1..Len(observed) : observed[i] = observer})

\* C20: in every performCall the check for a break comes first, then oncall,
\* then the function, then onvalue: the check invokes nothing and fires
\* nothing; oncall fires (if installed) before the function is invoked, so
\* that oncall has fired once per function invoked plus once for the call
\* about to be invoked; the function is invoked with the arguments of the
\* call and onvalue does not fire in that step; and the value reaches the
\* caller only in the step in which onvalue (if installed, and for a value
\* that is not undefined) has fired, no call being made in between.
C20_PerformCallOrder ==
    [][/\ (At("performCall", "check") /\ api' = NoCall) =>
              /\ calls' = calls
              /\ observed' = observed
              /\ stack' = [stack EXCEPT ![Len(stack)].pc = "oncall"]
       /\ (At("performCall", "oncall") /\ api' = NoCall) =>
              /\ calls' = calls
              /\ observed' = IF hooks THEN Append(observed, "oncall") ELSE observed
              /\ stack' = [stack EXCEPT ![Len(stack)].pc = "invoke"]
       /\ (At("performCall", "invoke") /\ api' = NoCall) =>
              /\ calls' = Append(calls, Call(Top.func.name, Top.args, Len(contexts)))
              /\ Fired("onvalue")' = Fired("onvalue")
              /\ Fired("oncall")' = Fired("oncall")
              /\ hooks => Fired("oncall") = Len(calls) + 1
       /\ (At("performCall", "onvalue") /\ api' = NoCall) =>
              /\ calls' = calls
              /\ observed' = IF hooks /\ Top.acc # Undef
                             THEN Append(observed, "onvalue") ELSE observed
              /\ stack' = Return(stack, Top.acc)
       /\ (hooks' /\ err' = "none") =>
              Fired("oncall")' = Len(calls') + (IF At("performCall", "invoke")' THEN 1 ELSE 0)
       /\ ~hooks' => observed' = <<>>]_vars

C20_Witness ==
    /\ hooks
    /\ program = SeqSq
    /\ At("performCall", "onvalue")
    /\ Top.func.name = "sq"
    /\ Top.acc = Num(49)
    /\ observed = << "onvalue", "oncall", "onvalue", "onvalue", "oncall", "onvalue", "oncall" >>
    /\ CallNames = << "sq", "*", "output" >>

(***************************************************************************)
(* Properties of List and ListBuilder.                                     *)
(***************************************************************************)
\* C21: whatever Lists are constructed and whatever is pushed, concatenated
\* or attached, List.empty keeps an undefined head and itself as its tail,
\* no other record has an undefined head, and the end of the builder is the
\* last cursor of its list.
C21_EmptyListSentinel ==
    /\ lists[empty] = [head |-> Undef, tail |-> empty]
    /\ \A c \in DOMAIN lists : isEmpty(lists, c) => c = empty
    /\ builder.end = ListEnd(lists, builder.list)

(***************************************************************************)
(* Properties of the parser.                                               *)
(***************************************************************************)
RECURSIVE NumText(_)
\* The decimal digits of a natural number.
NumText(n) == IF n < 10 THEN Digit(n) ELSE NumText(n \div 10) \o Digit(n % 10)

\* String(val) of a number or a word.
String(val) ==
    IF ~isNumber(val) THEN Key(val)
    ELSE IF val.a # "" THEN val.a
    ELSE IF val.n < 0 THEN "-" \o NumText(0 - val.n)
    ELSE NumText(val.n)

RECURSIVE Compact(_)
\* List.stringify of the items of a list without the blanks between them.
Compact(items) ==
    IF items = <<>> THEN ""
    ELSE LET val == Head(items)
         IN (IF isList(val) THEN "[" \o Compact(val.l) \o "]" ELSE String(val))
            \o Compact(Tail(items))

\* The source without its blanks.
Squeezed(source) == Text(SelectSeq(source, LAMBDA c : c \notin reWhitespace))

\* The tokens execute has just handed to evaluate.
Tokens == stack[2].iter

\* C22: the tokens parse returns for a source of numbers, words, "=", "<"
\* and lists, written out one after the other with their brackets, are the
\* source without its blanks: every token once, in order, at its depth, and
\* nothing else.
C22_ParsingLossless ==
    Started => Compact(Tokens) = Squeezed(program)

RECURSIVE Occurrences(_, _)
\* How many times the token val occurs in the items, at any depth.
Occurrences(items, val) ==
    IF items = <<>> THEN 0
    ELSE (IF Head(items) = val THEN 1
          ELSE IF isList(Head(items)) THEN Occurrences(Head(items).l, val) ELSE 0)
         + Occurrences(Tail(items), val)

\* C23: "=" and "<" are each recorded as a token of their own wherever they
\* occur, ending the word or number before them: the tokens hold one "=" per
\* "=" of the source and one "<" per "<", `a=b` parses to a, =, b as `a<b`
\* parses to a, <, b, and the evaluator takes "=" for an infix operator of
\* priority 1, so that `print 3=3` and `print 3 = 3` print true as
\* `print 3<4` does.
C23_OperatorTokens ==
    /\ Started =>
           \A c \in {"=", "<"} :
               Occurrences(Tokens, W(c)) = Cardinality({i \in DOMAIN program : program[i] = c})
    /\ (Started /\ program = TokenEquals) => Tokens = << W("a"), W("="), W("b") >>
    /\ (Started /\ program = TokenLess) => Tokens = << W("a"), W("<"), W("b") >>
    /\ (Settled /\ program \in {TokenPrintEquals, TokenPrintSpaced, TokenPrintLess}) =>
           /\ result = "ok"
           /\ calls = << Call(IF program = TokenPrintLess THEN "<" ELSE "=",
                               << Num(3), Num(IF program = TokenPrintLess THEN 4 ELSE 3) >>, 1),
                         Call("print", << Bool(TRUE) >>, 1) >>

\* C27: parse comes to an end on every source: execute either starts the
\* evaluation or fails with a syntax error.
C27_ParseTerminates ==
    (api.op = "execute" /\ api.err # "already running") =>
        api.err \in {"none", "SyntaxError"}

(***************************************************************************)
(* Properties of template iteration.                                       *)
(***************************************************************************)
\* The smaller of two numbers.
Min(a, b) == IF a < b THEN a ELSE b

\* The calls after the first one.
Inner == IF calls = <<>> THEN <<>> ELSE Tail(calls)

\* What the template of ForeachSource calls in its first m invocations.
ForeachCalls(m) ==
    [j \in 1..(2 * m) |->
        IF j % 2 = 1
        THEN Call("sum", << Num((j + 1) \div 2), Num((j + 1) \div 2 + 4) >>, 1)
        ELSE Call("print", << Num(j + 4) >>, 1)]

\* What the template of MapSource calls in its first m invocations.
MapCalls(m) == [j \in 1..m |-> Call("sum", << Num(j), Num(j + 4) >>, 1)]

\* The values those invocations return.
MapResults(m) == [j \in 1..m |-> Num(2 * j + 4)]

\* C24: foreach and map over sources n1 and n2 long invoke the template
\* once per position up to the shorter length and never more; the i-th
\* invocation gets the i-th item of each source, in the order of the
\* sources; map returns the list of the results, in that order; and every
\* round of doMap takes one item from each source.
C24_LockStep ==
    /\ \A n1, n2 \in 0..MaxData :
           LET m == Min(n1, n2)
           IN /\ program = ForeachSource(n1, n2) =>
                     /\ IsPrefix(Inner, ForeachCalls(m))
                     /\ Settled => result = "ok" /\ Inner = ForeachCalls(m)
              /\ program = MapSource(n1, n2) =>
                     /\ IsPrefix(Inner, Append(MapCalls(m),
                                              Call("print", << L(MapResults(m)) >>, 1)))
                     /\ Settled => /\ result = "ok"
                                   /\ Printed = L(MapResults(m))
                                   /\ Len(Printed.l) = m
    /\ \A n \in 0..MaxData :
           (Settled /\ program = ForeachOne(n)) =>
               /\ result = "ok"
               /\ Inner = [j \in 1..n |-> Call("print", << Num(j) >>, 1)]
    /\ \A i \in 1..Len(stack) :
           stack[i].k = "doMap" =>
               /\ \A a, b \in DOMAIN stack[i].args :
                      Len(stack[i - 1].args[a].l) - Len(stack[i].args[a].l)
                          = Len(stack[i - 1].args[b].l) - Len(stack[i].args[b].l)
               /\ stack[i].func.name = "map" =>
                      Len(stack[i].iter) + (IF stack[i].pc = "ret" THEN 1 ELSE 0)
                          = Len(stack[i - 1].args[1].l) - Len(stack[i].args[1].l)

C24_Witness ==
    /\ Settled
    /\ program = MapSource(2, 1)
    /\ result = "ok"
    /\ Inner = << Call("sum", << Num(1), Num(5) >>, 1), Call("print", << L(<< Num(6) >>) >>, 1) >>

(***************************************************************************)
(* Properties of evaluate.                                                 *)
(***************************************************************************)
\* C25: an evaluate that finds the stop flag of its context set returns the
\* output value of that context to its caller.
C25_EvaluateReturnsOutput ==
    [][(At("evaluate", "loop") /\ contexts[Top.ctx].stop /\ api' = NoCall) =>
          /\ err' = "none"
          /\ stack' = Return(stack, contexts[Top.ctx].output)]_vars

(***************************************************************************)
(* Properties of the fixed-arity call.                                     *)
(***************************************************************************)
\* The command word a handleFixed that has just started is looking at.
Command == IterHead(stack[Top.ev].iter)

\* The cursor of the evaluate the frame on top belongs to has run out.
EndOfInput == stack[Top.ev].iter = <<>>

\* C26: a call in the fixed form invokes its function with exactly as many
\* arguments as the function declares.  A name that is not bound fails with
\* the unbound-function error before any argument is looked at and before
\* anything is invoked; an argument that yields no value, and an input that
\* ends before the last argument, fail with a syntax error and invoke
\* nothing; `print sum 1`, `print zz 1` and `print print 1` end that way,
\* the last after the inner print, and `print sum 1 1` prints 2.
C26_FixedArity ==
    [][/\ \A i \in 1..Len(calls') :
              Len(calls'[i].args) = builtins[calls'[i].f].length
       /\ (Running /\ Top.k = "handleFixed") => calls' = calls
       /\ (At("handleFixed", "start") /\ isString(Command)
             /\ Command.a \notin DOMAIN procedureScope \cup {"-", ")"}) =>
              err' = "TypeError" /\ stack' = stack
       /\ (At("handleFixed", "arg") /\ Top.acc = Undef) =>
              err' = "SyntaxError" /\ stack' = stack
       /\ (At("handleFixed", "arg") /\ Top.acc # Undef /\ EndOfInput
             /\ Len(Top.args) + 1 < Top.func.length) =>
              err' = "SyntaxError"
       /\ (Settled' /\ program' = ArityShort) => result' = "SyntaxError" /\ calls' = <<>>
       /\ (Settled' /\ program' = ArityUnbound) => result' = "TypeError" /\ calls' = <<>>
       /\ (Settled' /\ program' = ArityCommand) =>
              result' = "SyntaxError" /\ calls' = << Call("print", << Num(1) >>, 1) >>
       /\ (Settled' /\ program' = ArityFull) =>
              /\ result' = "ok"
              /\ calls' = << Call("sum", << Num(1), Num(1) >>, 1),
                             Call("print", << Num(2) >>, 1) >>]_vars

C26_Witness ==
    /\ program = ArityShort
    /\ err = "SyntaxError"
    /\ Top.k = "handleFixed"
    /\ Top.func.name = "sum"
    /\ Top.args = << Num(1) >>
    /\ EndOfInput
    /\ calls = <<>>

\* C29: the pause state does not outlive a run: whenever no program is
\* running, paused is false as well.
C29_PauseDoesNotLeak == ~running => ~paused

\* C30: continue() called on a running, paused interpreter raises no error
\* and lifts the pause, whether or not a checkBreak has parked since
\* pause(); and pause(), continue() and break() called in a state that does
\* not allow them raise an error and leave running, paused and breakFlag as
\* they were.
C30_ContinueNeverRaises ==
    [][/\ (running /\ paused /\ api'.op = "continue") =>
              api'.err = "none" /\ ~paused'
       /\ (api'.op \in {"pause", "continue", "break"} /\ ~running) =>
              api'.err # "none" /\ UNCHANGED << running, paused, breakFlag >>
       /\ (api'.op = "pause" /\ running /\ paused) =>
              api'.err # "none" /\ UNCHANGED << running, paused, breakFlag >>
       /\ (api'.op = "continue" /\ running /\ ~paused) =>
              api'.err # "none" /\ UNCHANGED << running, paused, breakFlag >>
       /\ (api'.op = "break" /\ running /\ breakFlag) =>
              api'.err # "none" /\ UNCHANGED << running, paused, breakFlag >>]_vars

\* C28: a break request always takes effect: once break() has been accepted
\* the program does not go on for ever, execute settles.
C28_BreakTakesEffect == breakFlag ~> ~running

====
